---- MODULE Spec2Model ----
(***************************************************************************)
(* Model of the auto-login click strategy (src/src/click_ops.py) and of    *)
(* the OCR click fallback built by src/src/runner.py.                      *)
(*                                                                         *)
(* One call of click_point_with_strategy is a state machine: the program   *)
(* counter pc is the position inside the call, and every action is one     *)
(* stretch of code between two interactions with the outside world (the    *)
(* window manager, the point provider, the input injector, the verify and  *)
(* fallback callbacks).  The outcomes of those interactions are chosen     *)
(* with \E.  `trace' is the list of the interactions the call has made,    *)
(* in order; it is what a test double would record.                        *)
(*                                                                         *)
(* Delays are kept in milliseconds: the code divides by 1000.0, an exact   *)
(* order-preserving scaling, and only compares the result with 0.          *)
(* Sleeps other than the backoff (foreground wait, post-click delay,       *)
(* recover cooldown) change no state and are not recorded.                 *)
(***************************************************************************)
EXTENDS Integers, Sequences, FiniteSets, TLC

VARIABLES
    flow,           \* the flow configuration object read with getattr
    call,           \* keyword arguments of the call
    pc,             \* position inside click_point_with_strategy
    round_index,    \* loop variable of the round loop (1-based)
    offset_index,   \* loop variable of the candidate loop (0-based)
    attempt,        \* loop variable of _resolve_base_point_with_recover
    base_point,     \* base point returned by the resolver
    visible_rect,   \* visible rect last read by the resolver
    last_reason,    \* last_reason of the resolver
    attempts,       \* list[ClickAttemptResult]
    result,         \* the returned ClickResult, NoResult while running
    trace,          \* interactions with the environment, in order
    pure,           \* a call of a pure function: arguments and result
    frames,         \* call stack of a window or scene routine, last on top
    steps,          \* interactions of that routine with the outside, in order
    clock,          \* time.time(), in whole seconds
    outcome         \* what the outermost routine returned or raised

vars == <<flow, call, pc, round_index, offset_index, attempt, base_point,
          visible_rect, last_reason, attempts, result, trace, pure,
          frames, steps, clock, outcome>>

callVars == <<frames, steps, clock, outcome>>

clickVars == <<flow, call, pc, round_index, offset_index, attempt, base_point,
               visible_rect, last_reason, attempts, result, trace>>

(***************************************************************************)
(* Bounds of the model.                                                    *)
(***************************************************************************)
MaxAttempts == 3        \* click_max_attempts ranges over 1..MaxAttempts
MaxRecover == 2         \* window_auto_recover_max_attempts over 1..MaxRecover
MaxRoundsTimesOffsets == 4  \* rounds * candidates of the many-round runs
MaxCoord == 5           \* pure-function points range over -1..MaxCoord
MaxSide == 4            \* pure-function rect sides range over 0..MaxSide
MaxGuard == 2           \* pure-function guard padding over 0..MaxGuard

Max(a, b) == IF a >= b THEN a ELSE b
Min(a, b) == IF a <= b THEN a ELSE b

NoPoint == <<>>
NoResult == [success |-> "none"]
Origin == <<0, 0>>
Err == "exc"            \* the text of any exception raised by a collaborator

(***************************************************************************)
(* Inputs of the click model.                                              *)
(***************************************************************************)
CandidateChoices == { << <<0, 0>> >>, << <<0, 0>>, <<2, 0>> >> }
BackoffChoices == { <<100>>, <<0, 250>> }
GuardChoices == {0, 1}
BasePoints == { <<2, 2>>, <<5, 2>> }
VisibleRects == { <<0, 0, 4, 4>>, <<0, 0, 6, 6>> }

(***************************************************************************)
(* Geometry.                                                               *)
(***************************************************************************)
is_point_in_rect(point, rect) ==
    /\ rect[1] <= point[1]
    /\ point[1] < rect[1] + rect[3]
    /\ rect[2] <= point[2]
    /\ point[2] < rect[2] + rect[4]

is_point_clickable_strict(point, rect, guard_padding) ==
    /\ is_point_in_rect(point, rect)
    /\ \/ guard_padding <= 0
       \/ /\ rect[1] + guard_padding <= point[1]
          /\ point[1] < rect[1] + rect[3] - guard_padding
          /\ rect[2] + guard_padding <= point[2]
          /\ point[2] < rect[2] + rect[4] - guard_padding

is_point_clickable(point, rect, guard_padding) ==
    IF ~is_point_in_rect(point, rect) THEN FALSE
    ELSE IF guard_padding <= 0 THEN TRUE
    ELSE IF rect[3] <= guard_padding * 2 \/ rect[4] <= guard_padding * 2 THEN TRUE
    ELSE /\ rect[1] + guard_padding <= point[1]
         /\ point[1] < rect[1] + rect[3] - guard_padding
         /\ rect[2] + guard_padding <= point[2]
         /\ point[2] < rect[2] + rect[4] - guard_padding

(***************************************************************************)
(* Configuration readers.                                                  *)
(***************************************************************************)
IsPair(item) == Len(item) = 2
NonNegative(item) == item >= 0

build_candidate_offsets(f) ==
    LET offsets == SelectSeq(f.click_candidates, IsPair)
    IN IF offsets = <<>> THEN <<Origin>> ELSE offsets

build_backoff_seconds(f) ==
    LET values == SelectSeq(f.click_backoff_ms, NonNegative)
    IN IF values = <<>> THEN <<0>> ELSE values

max_attempts == Max(1, flow.click_max_attempts)
guard_padding == Max(0, flow.click_point_guard_padding_px)
max_recover_attempts == Max(1, flow.window_auto_recover_max_attempts)
candidate_offsets == build_candidate_offsets(flow)
backoff_seconds == build_backoff_seconds(flow)

(***************************************************************************)
(* Records.                                                                *)
(***************************************************************************)
ClickAttemptResult(success, point, r, o, reason, detail) ==
    [success |-> success, point |-> point, round_index |-> r,
     offset_index |-> o, reason |-> reason, detail |-> detail]

ClickResult(success, atts, reason, detail, point) ==
    [success |-> success, attempts |-> atts, final_reason |-> reason,
     final_detail |-> detail, success_point |-> point]

Event(op, r, o, point, rect, res, ms) ==
    [op |-> op, round |-> r, offset |-> o, point |-> point, rect |-> rect,
     res |-> res, ms |-> ms]

(***************************************************************************)
(* _sleep_backoff: the time.sleep calls it makes after round r.            *)
(***************************************************************************)
backoff_delay_first(r, backoff) == backoff[1]

backoff_delay(r, backoff) == backoff[Min(r - 1, Len(backoff) - 1) + 1]

sleep_backoff(r, n, backoff) ==
    IF r >= n THEN <<>>
    ELSE LET delay == backoff_delay(r, backoff)
         IN IF delay > 0
            THEN <<Event("backoff_sleep", r, -1, Origin, <<>>, "ok", delay)>>
            ELSE <<>>

(***************************************************************************)
(* The call: initial states.                                               *)
(***************************************************************************)
Flow(enabled, n, cands, backoff, guard, fg, ocr, maxrec) ==
    [click_strategy_enabled |-> enabled,
     click_max_attempts |-> n,
     click_candidates |-> cands,
     click_backoff_ms |-> backoff,
     click_point_guard_padding_px |-> guard,
     click_verify_foreground_enabled |-> fg,
     click_ocr_fallback_enabled |-> ocr,
     window_auto_recover_max_attempts |-> maxrec]

\* verify_action: "none" or a callback.  fallback_action: "none", any
\* callable ("plain"), or the one built by runner._build_click_fallback
\* around the same verify_action ("runner").
Call(recover, verify, fallback) ==
    [recover_enabled |-> recover, verify_action |-> verify,
     fallback_action |-> fallback]

VerifyChoices == {"none", "callback"}
FallbackChoices == {"none", "plain", "runner"}

\* Many rounds, little variety inside a round: the round loop, the backoff
\* and the order of the attempts.
DeepConfigs ==
    { [flow |-> Flow(TRUE, n, cands, backoff, 0, FALSE, TRUE, 1),
       call |-> Call(FALSE, "callback", fallback)] :
        n \in 1..MaxAttempts, cands \in CandidateChoices,
        backoff \in BackoffChoices, fallback \in {"none", "plain"} }

\* One round, every combination of the switches.
WideConfigs ==
    { [flow |-> Flow(enabled, 1, cands, <<100>>, guard, fg, ocr, maxrec),
       call |-> Call(recover, verify, fallback)] :
        enabled \in BOOLEAN, cands \in CandidateChoices, guard \in GuardChoices,
        fg \in BOOLEAN, ocr \in BOOLEAN, maxrec \in 1..MaxRecover,
        recover \in BOOLEAN, verify \in VerifyChoices,
        fallback \in FallbackChoices }

\* Two rounds with the switches as the application sets them by default.
MidConfigs ==
    { [flow |-> Flow(TRUE, 2, cands, <<0, 250>>, 1, TRUE, TRUE, MaxRecover),
       call |-> Call(TRUE, verify, fallback)] :
        cands \in CandidateChoices, verify \in VerifyChoices,
        fallback \in {"none", "runner"} }

\* The shortest run in which a backoff list with two different values is
\* used up and a further round still sleeps: two rounds more than values.
LongBackoff == <<0, 250>>

LongConfigs ==
    { [flow |-> Flow(TRUE, Len(LongBackoff) + 2, << <<0, 0>> >>, LongBackoff, 0,
                     FALSE, TRUE, 1),
       call |-> Call(FALSE, "callback", "none")] }

DeepOk(c) ==
    c.flow.click_max_attempts * Len(c.flow.click_candidates) <= MaxRoundsTimesOffsets

Configs ==
    {c \in DeepConfigs : DeepOk(c)} \cup WideConfigs \cup MidConfigs \cup LongConfigs

IdlePure == [fn |-> "none"]

ClickInit ==
    /\ \E c \in Configs : flow = c.flow /\ call = c.call
    /\ pc = IF flow.click_strategy_enabled THEN "activate" ELSE "no_strategy"
    /\ round_index = 1
    /\ offset_index = 0
    /\ attempt = 0
    /\ base_point = NoPoint
    /\ visible_rect = <<>>
    /\ last_reason = <<>>
    /\ attempts = <<>>
    /\ result = NoResult
    /\ trace = <<>>

NoOutcome == [kind |-> "none"]

\* no window or scene routine is in progress
CallIdle ==
    /\ frames = <<>>
    /\ steps = <<>>
    /\ clock = 0
    /\ outcome = NoOutcome

Init == ClickInit /\ pure = IdlePure /\ CallIdle

\* no call of click_point_with_strategy is in progress
ClickIdle ==
    /\ flow = <<>>
    /\ call = <<>>
    /\ pc = "idle"
    /\ round_index = 0
    /\ offset_index = 0
    /\ attempt = 0
    /\ base_point = NoPoint
    /\ visible_rect = <<>>
    /\ last_reason = <<>>
    /\ attempts = <<>>
    /\ result = NoResult
    /\ trace = <<>>

(***************************************************************************)
(* Leaving a round and returning.                                          *)
(***************************************************************************)
Return(res, tr) ==
    /\ result' = res
    /\ attempts' = res.attempts
    /\ trace' = tr
    /\ pc' = "done"
    /\ UNCHANGED <<flow, call, round_index, offset_index, attempt, base_point,
                   visible_rect, last_reason, pure, callVars>>

\* _sleep_backoff(round_index, ...) followed by the next iteration of the
\* round loop, or by the code after the loop.
end_round(atts, tr) ==
    /\ attempts' = atts
    /\ trace' = tr \o sleep_backoff(round_index, max_attempts, backoff_seconds)
    /\ IF round_index < max_attempts
       THEN round_index' = round_index + 1 /\ pc' = "activate"
       ELSE round_index' = round_index /\ pc' = "fallback"
    /\ offset_index' = 0
    /\ attempt' = 0
    /\ base_point' = NoPoint
    /\ visible_rect' = <<>>
    /\ last_reason' = <<>>
    /\ UNCHANGED <<flow, call, result, pure, callVars>>

(***************************************************************************)
(* Round step a: _activate_target_window.                                  *)
(***************************************************************************)
ActivateEvent(res) == Event("activate", round_index, -1, Origin, <<>>, res, 0)

\* the round goes on to the resolver after recording the failure
activate_failed_fallthrough ==
    /\ attempts' =
           Append(attempts,
                  ClickAttemptResult(FALSE, Origin, round_index, -1,
                                     "activate_or_foreground_check_failed", <<>>))
    /\ trace' = Append(trace, ActivateEvent("false"))
    /\ \E rect \in VisibleRects : visible_rect' = rect
    /\ last_reason' = <<"resolve_base_point_failed", <<>>>>
    /\ attempt' = 1
    /\ pc' = "resolve"
    /\ UNCHANGED <<flow, call, round_index, offset_index, base_point, result, pure, callVars>>

activate_failed ==
    end_round(
        Append(attempts,
               ClickAttemptResult(FALSE, Origin, round_index, -1,
                                  "activate_or_foreground_check_failed", <<>>)),
        Append(trace, ActivateEvent("false")))

\* select_latest_active_window returned None
ActivateNoWindow == pc = "activate" /\ activate_failed

\* activate_window raised
ActivateRaised == pc = "activate" /\ activate_failed

\* the foreground window does not match after activation
ActivateForegroundMismatch ==
    /\ pc = "activate"
    /\ flow.click_verify_foreground_enabled
    /\ activate_failed

\* activation succeeded; _resolve_base_point_with_recover starts and reads
\* the visible rect once before its loop
ActivateOk ==
    /\ pc = "activate"
    /\ \E rect \in VisibleRects :
        /\ visible_rect' = rect
        /\ last_reason' = <<"resolve_base_point_failed", <<>>>>
        /\ attempt' = 1
        /\ pc' = "resolve"
        /\ trace' = Append(trace, ActivateEvent("true"))
        /\ UNCHANGED <<flow, call, round_index, offset_index, base_point,
                       attempts, result, pure, callVars>>

\* select_latest_active_window raised (it is called outside any try): the
\* exception leaves click_point_with_strategy
ActivateCrashed ==
    /\ pc = "activate"
    /\ pc' = "raised"
    /\ trace' = Append(trace, ActivateEvent("raise"))
    /\ UNCHANGED <<flow, call, round_index, offset_index, attempt, base_point,
                   visible_rect, last_reason, attempts, result, pure, callVars>>

(***************************************************************************)
(* Round step b: _resolve_base_point_with_recover, one loop iteration per  *)
(* action.  The event of an iteration carries the point the provider       *)
(* returned and the visible rect read right after it.                      *)
(***************************************************************************)
ProviderEvent(point, rect, res) ==
    Event("point_provider", round_index, attempt, point, rect, res, 0)

RecoverEvent(res) == Event("recover", round_index, attempt, Origin, <<>>, res, 0)

\* base_point is None: the round records base_reason and goes to the backoff
base_point_failed(reason, tr) ==
    end_round(
        Append(attempts,
               ClickAttemptResult(FALSE, Origin, round_index, -1,
                                  reason[1], reason[2])),
        tr)

ResolveProviderRaised ==
    /\ pc = "resolve"
    /\ base_point_failed(<<"resolve_base_point_failed", Err>>,
                         Append(trace, ProviderEvent(Origin, <<>>, "raise")))

may_recover_always(recover_enabled, att, limit) == att < limit

\* the two breaks before recover_window_to_visible
may_recover(recover_enabled, att, limit) ==
    recover_enabled /\ ~(att >= limit)

\* the point tested against the rect read before the provider call
resolve_accepts_stale(point, rect, stale_rect, guard) ==
    is_point_clickable(point, stale_rect, guard)

\* the test that lets the resolver return the point
resolve_accepts(point, rect, stale_rect, guard) ==
    is_point_clickable(point, rect, guard)

ResolveClickable ==
    /\ pc = "resolve"
    /\ \E point \in BasePoints, rect \in VisibleRects :
        /\ resolve_accepts(point, rect, visible_rect, guard_padding)
        /\ base_point' = point
        /\ visible_rect' = rect
        /\ last_reason' = <<"ok", <<>>>>
        /\ offset_index' = 0
        /\ pc' = "candidate"
        /\ trace' = Append(trace, ProviderEvent(point, rect, "clickable"))
        /\ UNCHANGED <<flow, call, round_index, attempt, attempts, result, pure, callVars>>

ResolveNotClickableBreak ==
    /\ pc = "resolve"
    /\ \E point \in BasePoints, rect \in VisibleRects :
        /\ ~resolve_accepts(point, rect, visible_rect, guard_padding)
        /\ ~may_recover(call.recover_enabled, attempt, max_recover_attempts)
        /\ base_point_failed(
               <<"base_point_outside_work_rect", <<point, rect, guard_padding>>>>,
               Append(trace, ProviderEvent(point, rect, "not_clickable")))

ResolveNotClickableRecover ==
    /\ pc = "resolve"
    /\ \E point \in BasePoints, rect \in VisibleRects :
        /\ ~resolve_accepts(point, rect, visible_rect, guard_padding)
        /\ may_recover(call.recover_enabled, attempt, max_recover_attempts)
        /\ visible_rect' = rect
        /\ last_reason' =
               <<"base_point_outside_work_rect", <<point, rect, guard_padding>>>>
        /\ attempt' = attempt + 1
        /\ trace' = trace \o <<ProviderEvent(point, rect, "not_clickable"),
                               RecoverEvent("returned")>>
        /\ UNCHANGED <<flow, call, pc, round_index, offset_index, base_point,
                       attempts, result, pure, callVars>>

\* recover_window_to_visible raised (its window lookup is outside any try)
ResolveRecoverCrashed ==
    /\ pc = "resolve"
    /\ \E point \in BasePoints, rect \in VisibleRects :
        /\ ~resolve_accepts(point, rect, visible_rect, guard_padding)
        /\ may_recover(call.recover_enabled, attempt, max_recover_attempts)
        /\ pc' = "raised"
        /\ trace' = trace \o <<ProviderEvent(point, rect, "not_clickable"),
                               RecoverEvent("raise")>>
        /\ UNCHANGED <<flow, call, round_index, offset_index, attempt, base_point,
                       visible_rect, last_reason, attempts, result, pure, callVars>>

(***************************************************************************)
(* Round step c: the candidate loop, one candidate per action.             *)
(***************************************************************************)
candidate_point ==
    <<base_point[1] + candidate_offsets[offset_index + 1][1],
      base_point[2] + candidate_offsets[offset_index + 1][2]>>

ClickEvent(point, res) ==
    Event("click", round_index, offset_index, point, visible_rect, res, 0)

ForegroundEvent(point, res) ==
    Event("foreground_check", round_index, offset_index, point, <<>>, res, 0)

VerifyEvent(point, res) ==
    Event("verify", round_index, offset_index, point, <<>>, res, 0)

\* the events of a click that was injected and passed the foreground check
clicked_in_foreground(point) ==
    <<ClickEvent(point, "ok")>> \o
    (IF flow.click_verify_foreground_enabled
     THEN <<ForegroundEvent(point, "true")>> ELSE <<>>)

FailedCandidate(reason, detail) ==
    ClickAttemptResult(FALSE, candidate_point, round_index, offset_index,
                       reason, detail)

next_candidate_stop(atts, tr) == end_round(atts, tr)

\* `continue' in the candidate loop; after the last candidate the loop ends
\* and the round goes to the backoff
next_candidate(atts, tr) ==
    IF offset_index + 1 < Len(candidate_offsets)
    THEN /\ offset_index' = offset_index + 1
         /\ attempts' = atts
         /\ trace' = tr
         /\ UNCHANGED <<flow, call, pc, round_index, attempt, base_point,
                        visible_rect, last_reason, result, pure, callVars>>
    ELSE end_round(atts, tr)

candidate_success_continue(reason, tr) ==
    next_candidate(
        Append(attempts,
               ClickAttemptResult(TRUE, candidate_point, round_index,
                                  offset_index, reason, <<>>)),
        tr)

candidate_success_base_point(reason, tr) ==
    Return(ClickResult(TRUE,
                       Append(attempts,
                              ClickAttemptResult(TRUE, candidate_point,
                                                 round_index, offset_index,
                                                 reason, <<>>)),
                       reason, <<>>, base_point),
           tr)

\* a successful candidate ends the call
candidate_success(reason, tr) ==
    Return(ClickResult(TRUE,
                       Append(attempts,
                              ClickAttemptResult(TRUE, candidate_point,
                                                 round_index, offset_index,
                                                 reason, <<>>)),
                       reason, <<>>, candidate_point),
           tr)

CandidateOutside ==
    /\ pc = "candidate"
    /\ ~is_point_clickable(candidate_point, visible_rect, guard_padding)
    /\ next_candidate(
           Append(attempts,
                  FailedCandidate("candidate_outside_work_rect",
                                  <<visible_rect, guard_padding>>)),
           trace)

\* the click is injected without the test of the candidate
CandidateClickRaisedUnchecked ==
    /\ pc = "candidate"
    /\ next_candidate(
           Append(attempts, FailedCandidate("click_failed", Err)),
           Append(trace, ClickEvent(candidate_point, "raise")))

CandidateClickRaised ==
    /\ pc = "candidate"
    /\ is_point_clickable(candidate_point, visible_rect, guard_padding)
    /\ next_candidate(
           Append(attempts, FailedCandidate("click_failed", Err)),
           Append(trace, ClickEvent(candidate_point, "raise")))

CandidateForegroundLost ==
    /\ pc = "candidate"
    /\ is_point_clickable(candidate_point, visible_rect, guard_padding)
    /\ flow.click_verify_foreground_enabled
    /\ next_candidate(
           Append(attempts, FailedCandidate("foreground_lost_after_click", <<>>)),
           trace \o <<ClickEvent(candidate_point, "ok"),
                      ForegroundEvent(candidate_point, "false")>>)

CandidateOkWithoutVerify ==
    /\ pc = "candidate"
    /\ is_point_clickable(candidate_point, visible_rect, guard_padding)
    /\ call.verify_action = "none"
    /\ candidate_success("ok_without_verify",
                         trace \o clicked_in_foreground(candidate_point))

\* a verify that raises taken for a verify that passed
CandidateVerifyRaisedAsPassed ==
    /\ pc = "candidate"
    /\ is_point_clickable(candidate_point, visible_rect, guard_padding)
    /\ call.verify_action # "none"
    /\ candidate_success("ok_verified",
                         trace \o clicked_in_foreground(candidate_point)
                               \o <<VerifyEvent(candidate_point, "raise")>>)

CandidateVerifyRaised ==
    /\ pc = "candidate"
    /\ is_point_clickable(candidate_point, visible_rect, guard_padding)
    /\ call.verify_action # "none"
    /\ next_candidate(
           Append(attempts, FailedCandidate("verify_error", Err)),
           trace \o clicked_in_foreground(candidate_point)
                 \o <<VerifyEvent(candidate_point, "raise")>>)

CandidateVerified ==
    /\ pc = "candidate"
    /\ is_point_clickable(candidate_point, visible_rect, guard_padding)
    /\ call.verify_action # "none"
    /\ candidate_success("ok_verified",
                         trace \o clicked_in_foreground(candidate_point)
                               \o <<VerifyEvent(candidate_point, "true")>>)

CandidateVerifyFailed ==
    /\ pc = "candidate"
    /\ is_point_clickable(candidate_point, visible_rect, guard_padding)
    /\ call.verify_action # "none"
    /\ next_candidate(
           Append(attempts, FailedCandidate("verify_failed", <<>>)),
           trace \o clicked_in_foreground(candidate_point)
                 \o <<VerifyEvent(candidate_point, "false")>>)

(***************************************************************************)
(* After the round loop: the fallback and the failure result.              *)
(***************************************************************************)
FallbackEvent(op, res) == Event(op, max_attempts, -2, Origin, <<>>, res, 0)

FallbackAttempt(success, reason, detail) ==
    ClickAttemptResult(success, Origin, max_attempts, -2, reason, detail)

\* a variant that surfaces the reason of the first attempt
failure_result_first(atts) ==
    IF atts = <<>>
    THEN ClickResult(FALSE, atts, "click_no_attempt", <<>>, NoPoint)
    ELSE ClickResult(FALSE, atts, atts[1].reason, atts[1].detail, NoPoint)

\* final_reason = attempts[-1].reason if attempts else "click_no_attempt"
failure_result(atts) ==
    IF atts = <<>>
    THEN ClickResult(FALSE, atts, "click_no_attempt", <<>>, NoPoint)
    ELSE ClickResult(FALSE, atts, atts[Len(atts)].reason,
                     atts[Len(atts)].detail, NoPoint)

fallback_wanted_ignore_flag(enabled, action) == action # "none"

\* if ocr_fallback_enabled and fallback_action is not None
fallback_wanted(enabled, action) == enabled /\ action # "none"

\* what click_point_with_strategy does with the outcome of fallback_action():
\* "true", "false" or "raise"; events are the calls the fallback made
fallback_outcome(events, returned) ==
    LET tr == trace \o events \o <<FallbackEvent("fallback", returned)>>
    IN CASE returned = "true" ->
              Return(ClickResult(TRUE,
                                 Append(attempts,
                                        FallbackAttempt(TRUE, "ocr_fallback_success",
                                                        <<>>)),
                                 "ocr_fallback_success", <<>>, NoPoint),
                     tr)
         [] returned = "raise" ->
              Return(failure_result(
                         Append(attempts,
                                FallbackAttempt(FALSE, "ocr_fallback_error", Err))),
                     tr)
         [] OTHER -> Return(failure_result(attempts), tr)

FallbackSkipped ==
    /\ pc = "fallback"
    /\ ~fallback_wanted(flow.click_ocr_fallback_enabled, call.fallback_action)
    /\ Return(failure_result(attempts), trace)

\* a fallback supplied by the caller: any callable
FallbackPlain ==
    /\ pc = "fallback"
    /\ fallback_wanted(flow.click_ocr_fallback_enabled, call.fallback_action)
    /\ call.fallback_action = "plain"
    /\ \E returned \in {"true", "false", "raise"} : fallback_outcome(<<>>, returned)

runner_fallback_skip_verify(ocr, verify) ==
    CASE ocr = "raise" -> <<"raise", <<FallbackEvent("ocr_click", "raise")>>>>
      [] ocr = "false" -> <<"false", <<FallbackEvent("ocr_click", "false")>>>>
      [] OTHER -> <<"true", <<FallbackEvent("ocr_click", "true")>>>>

\* runner._build_click_fallback._fallback: its return value and the calls it
\* makes, given the outcome of _click_ocr_keyword_fallback and of the verify
\* call at (0, 0)
runner_fallback(ocr, verify) ==
    CASE ~flow.click_ocr_fallback_enabled -> <<"false", <<>>>>
      [] ocr = "raise" -> <<"raise", <<FallbackEvent("ocr_click", "raise")>>>>
      [] ocr = "false" -> <<"false", <<FallbackEvent("ocr_click", "false")>>>>
      [] call.verify_action = "none" ->
             <<"true", <<FallbackEvent("ocr_click", "true")>>>>
      [] OTHER ->
             <<IF verify = "true" THEN "true" ELSE "false",
               <<FallbackEvent("ocr_click", "true"),
                 FallbackEvent("verify", verify)>>>>

FallbackRunner ==
    /\ pc = "fallback"
    /\ fallback_wanted(flow.click_ocr_fallback_enabled, call.fallback_action)
    /\ call.fallback_action = "runner"
    /\ \E ocr \in {"true", "false", "raise"}, verify \in {"true", "false", "raise"} :
        fallback_outcome(runner_fallback(ocr, verify)[2],
                         runner_fallback(ocr, verify)[1])

(***************************************************************************)
(* _click_without_strategy.                                                *)
(***************************************************************************)
NsEvent(op, point, res) == Event(op, 1, 0, point, <<>>, res, 0)

NsAttempt(success, point, reason, detail) ==
    ClickAttemptResult(success, point, 1, 0, reason, detail)

NoStrategyProviderRaised ==
    /\ pc = "no_strategy"
    /\ Return(ClickResult(FALSE, <<>>, "resolve_point_failed", Err, NoPoint),
              <<NsEvent("point_provider", Origin, "raise")>>)

NoStrategyClickRaised ==
    /\ pc = "no_strategy"
    /\ \E point \in BasePoints :
        Return(ClickResult(FALSE, <<NsAttempt(FALSE, point, "click_failed", Err)>>,
                           "click_failed", Err, NoPoint),
               <<NsEvent("point_provider", point, "ok"),
                 NsEvent("click", point, "raise")>>)

NoStrategyVerifyFailed ==
    /\ pc = "no_strategy"
    /\ call.verify_action # "none"
    /\ \E point \in BasePoints :
        Return(ClickResult(FALSE, <<NsAttempt(FALSE, point, "verify_failed", <<>>)>>,
                           "verify_failed", <<>>, NoPoint),
               <<NsEvent("point_provider", point, "ok"),
                 NsEvent("click", point, "ok"),
                 NsEvent("verify", point, "false")>>)

NoStrategyVerifyRaised ==
    /\ pc = "no_strategy"
    /\ call.verify_action # "none"
    /\ \E point \in BasePoints :
        Return(ClickResult(FALSE, <<NsAttempt(FALSE, point, "verify_error", Err)>>,
                           "verify_error", Err, NoPoint),
               <<NsEvent("point_provider", point, "ok"),
                 NsEvent("click", point, "ok"),
                 NsEvent("verify", point, "raise")>>)

\* a variant that reports success without calling verify_action
NoStrategyOkUnverified ==
    /\ pc = "no_strategy"
    /\ \E point \in BasePoints :
        LET reason == IF call.verify_action = "none"
                      THEN "ok_without_verify" ELSE "ok_verified"
        IN Return(ClickResult(TRUE, <<NsAttempt(TRUE, point, reason, <<>>)>>,
                              reason, <<>>, point),
                  <<NsEvent("point_provider", point, "ok"),
                    NsEvent("click", point, "ok")>>)

NoStrategyOk ==
    /\ pc = "no_strategy"
    /\ \E point \in BasePoints :
        LET reason == IF call.verify_action = "none"
                      THEN "ok_without_verify" ELSE "ok_verified"
        IN Return(ClickResult(TRUE, <<NsAttempt(TRUE, point, reason, <<>>)>>,
                              reason, <<>>, point),
                  <<NsEvent("point_provider", point, "ok"),
                    NsEvent("click", point, "ok")>> \o
                  (IF call.verify_action = "none" THEN <<>>
                   ELSE <<NsEvent("verify", point, "true")>>))

(***************************************************************************)
(* Specification of one call of click_point_with_strategy.                 *)
(***************************************************************************)
Next ==
    \/ ActivateNoWindow
    \/ ActivateRaised
    \/ ActivateForegroundMismatch
    \/ ActivateOk
    \/ ActivateCrashed
    \/ ResolveProviderRaised
    \/ ResolveClickable
    \/ ResolveNotClickableBreak
    \/ ResolveNotClickableRecover
    \/ ResolveRecoverCrashed
    \/ CandidateOutside
    \/ CandidateClickRaised
    \/ CandidateForegroundLost
    \/ CandidateOkWithoutVerify
    \/ CandidateVerifyRaised
    \/ CandidateVerified
    \/ CandidateVerifyFailed
    \/ FallbackSkipped
    \/ FallbackPlain
    \/ FallbackRunner
    \/ NoStrategyProviderRaised
    \/ NoStrategyClickRaised
    \/ NoStrategyVerifyFailed
    \/ NoStrategyVerifyRaised
    \/ NoStrategyOk

Spec == Init /\ [][Next]_vars

(***************************************************************************)
(* Specification of one call of _is_point_clickable on integer inputs.     *)
(***************************************************************************)
Coords == -1..MaxCoord
RectOrigins == {-1, 0, 1}
Sides == 0..MaxSide

ClickableInit ==
    /\ ClickIdle
    /\ CallIdle
    /\ \E x \in Coords, y \in Coords, left \in RectOrigins, top \in RectOrigins,
          width \in Sides, height \in Sides, guard \in 0..MaxGuard :
        pure = [fn |-> "is_point_clickable", point |-> <<x, y>>,
                rect |-> <<left, top, width, height>>, guard |-> guard,
                done |-> FALSE, ret |-> FALSE]

CallIsPointClickable ==
    /\ pure.fn = "is_point_clickable"
    /\ ~pure.done
    /\ pure' = [pure EXCEPT !.done = TRUE,
                            !.ret = is_point_clickable(pure.point, pure.rect,
                                                       pure.guard)]
    /\ UNCHANGED <<clickVars, callVars>>

SpecClickable == ClickableInit /\ [][CallIsPointClickable]_vars

(***************************************************************************)
(* Vocabulary of the properties.                                           *)
(***************************************************************************)
Strategy == pc # "idle" /\ flow.click_strategy_enabled
Done == pc = "done"
N == max_attempts
M == Len(candidate_offsets)
Idx == 1..Len(trace)
AttIdx == 1..Len(attempts)
RoundOps == {"activate", "point_provider", "recover", "click",
             "foreground_check", "backoff_sleep"}

\* the event is part of round r (the verify call made by the fallback has
\* offset -2 and belongs to no round)
InRound(e, r) ==
    /\ e.round = r
    /\ \/ e.op \in RoundOps
       \/ e.op = "verify" /\ e.offset >= 0

\* attempts recorded by round r
RoundAttempts(r) ==
    {k \in AttIdx : attempts[k].round_index = r /\ attempts[k].offset_index >= -1}

\* round r is over and did not succeed
RoundFailed(r) ==
    \/ round_index > r
    \/ round_index = r /\ pc = "fallback"
    \/ /\ round_index = r
       /\ Done
       /\ ~\E k \in AttIdx : attempts[k].success /\ attempts[k].offset_index >= 0

(***************************************************************************)
(* C10.  For every integer point, rectangle and guard_padding >= 0,        *)
(* _is_point_clickable returns true iff the point lies inside visible_rect *)
(* and, when guard_padding > 0 and both width and height are greater than  *)
(* 2 * guard_padding, also inside the rectangle shrunk by guard_padding on *)
(* every side; when width or height is <= 2 * guard_padding the padding is *)
(* ignored and every point inside the raw rectangle is clickable.          *)
(***************************************************************************)
Shrunk(rect, pad) ==
    <<rect[1] + pad, rect[2] + pad, rect[3] - 2 * pad, rect[4] - 2 * pad>>

PaddingApplies(rect, pad) == pad > 0 /\ rect[3] > 2 * pad /\ rect[4] > 2 * pad

C10_ClickableIffInsidePadded ==
    (pure.fn = "is_point_clickable" /\ pure.done) =>
        /\ pure.ret <=>
               /\ is_point_in_rect(pure.point, pure.rect)
               /\ PaddingApplies(pure.rect, pure.guard) =>
                      is_point_in_rect(pure.point, Shrunk(pure.rect, pure.guard))
        /\ (pure.rect[3] <= 2 * pure.guard \/ pure.rect[4] <= 2 * pure.guard) =>
               (pure.ret <=> is_point_in_rect(pure.point, pure.rect))

\* a point on the border of a rect too small for the padding is clickable
C10_Witness ==
    /\ pure.fn = "is_point_clickable"
    /\ pure.done
    /\ pure.guard = 1
    /\ pure.rect = <<0, 0, 2, 3>>
    /\ pure.point = <<0, 2>>
    /\ pure.ret

(***************************************************************************)
(* C1.  With the strategy enabled, max_attempts = N and M candidate        *)
(* offsets, a call in which every activation and every base-point          *)
(* resolution succeeds, every candidate point is clickable, every click is *)
(* injected, verify always returns false and no fallback is supplied       *)
(* returns success = false with exactly N * M attempts, in round-major,    *)
(* offset-minor order: the attempt at position (r - 1) * M + i (i from 0)  *)
(* has round_index r and offset_index i.                                   *)
(***************************************************************************)
\* nothing went wrong outside the call, and verify said no every time
FullyFailingRun ==
    /\ Strategy
    /\ Done
    /\ call.verify_action = "callback"
    /\ call.fallback_action = "none"
    /\ \A k \in Idx :
        /\ trace[k].op = "activate" => trace[k].res = "true"
        /\ trace[k].op = "point_provider" => trace[k].res = "clickable"
        /\ trace[k].op = "click" => trace[k].res = "ok"
        /\ trace[k].op = "foreground_check" => trace[k].res = "true"
        /\ trace[k].op = "verify" => trace[k].res = "false"
    /\ \A k \in AttIdx : attempts[k].reason # "candidate_outside_work_rect"

C1_ExhaustionOrder ==
    FullyFailingRun =>
        /\ result.success = FALSE
        /\ Len(result.attempts) = N * M
        /\ \A r \in 1..N, i \in 0..(M - 1) :
            /\ result.attempts[(r - 1) * M + i + 1].round_index = r
            /\ result.attempts[(r - 1) * M + i + 1].offset_index = i

\* two rounds of two candidates: four attempts
C1_Witness ==
    /\ FullyFailingRun
    /\ N = 2
    /\ M = 2
    /\ Len(result.attempts) = 4
    /\ result.attempts[3].round_index = 2
    /\ result.attempts[3].offset_index = 0

(***************************************************************************)
(* C2.  With a configured backoff list B, the backoff slept after a failed *)
(* round r < N is B[min(r - 1, len(B) - 1)] (0-based: rounds beyond the    *)
(* list reuse its last value), it is slept after everything else the round *)
(* did and before the next round, and no backoff is slept after round N,   *)
(* whichever way the round failed (activation, base point, candidates).    *)
(***************************************************************************)
ConfiguredBackoff(r) ==
    IF r <= Len(flow.click_backoff_ms)
    THEN flow.click_backoff_ms[r]
    ELSE flow.click_backoff_ms[Len(flow.click_backoff_ms)]

BackoffSleeps(r) ==
    {k \in Idx : trace[k].op = "backoff_sleep" /\ trace[k].round = r}

C2_BackoffSchedule ==
    Strategy =>
        \A r \in 1..N :
            /\ (r < N /\ RoundFailed(r) /\ ConfiguredBackoff(r) > 0) =>
                   /\ Cardinality(BackoffSleeps(r)) = 1
                   /\ \A k \in BackoffSleeps(r) :
                       /\ trace[k].ms = ConfiguredBackoff(r)
                       /\ \A j \in Idx : j < k => trace[j].round <= r
                       /\ \A j \in Idx : j > k => trace[j].round > r
            /\ ~(r < N /\ RoundFailed(r) /\ ConfiguredBackoff(r) > 0) =>
                   BackoffSleeps(r) = {}

\* three rounds failing in the three ways, a one-element backoff list
C2_Witness ==
    /\ Strategy
    /\ Done
    /\ N = 3
    /\ flow.click_backoff_ms = <<100>>
    /\ Len(attempts) = 3
    /\ attempts[1].reason = "activate_or_foreground_check_failed"
    /\ attempts[2].reason = "resolve_base_point_failed"
    /\ attempts[3].reason = "verify_failed"
    /\ Cardinality(BackoffSleeps(1)) = 1
    /\ Cardinality(BackoffSleeps(2)) = 1
    /\ \A k \in BackoffSleeps(2) : trace[k].ms = 100

(***************************************************************************)
(* C3.  The fallback action is invoked at most once per call, only after   *)
(* all max_attempts rounds have ended without a successful attempt, and    *)
(* only when a fallback is supplied and click_ocr_fallback_enabled is      *)
(* true; if it returns true the call returns success = true with           *)
(* final_reason "ocr_fallback_success" and exactly one extra attempt after *)
(* the round attempts; it is never invoked when a candidate succeeded.     *)
(***************************************************************************)
FallbackCalls == {k \in Idx : trace[k].op = "fallback"}

CandidateSucceeded ==
    \E k \in AttIdx : attempts[k].success /\ attempts[k].offset_index >= 0

IsRoundAttempt(a) == a.offset_index >= -1 /\ a.round_index \in 1..N

C3_FallbackOnceAfterAllRounds ==
    Strategy =>
        /\ Cardinality(FallbackCalls) <= 1
        /\ \A k \in FallbackCalls :
            /\ call.fallback_action # "none"
            /\ flow.click_ocr_fallback_enabled
            /\ \A r \in 1..N :
                /\ \E j \in 1..(k - 1) : trace[j].op = "activate" /\ trace[j].round = r
                /\ RoundAttempts(r) # {}
            /\ \A j \in Idx : (\E r \in 1..N : InRound(trace[j], r)) => j < k
            /\ ~CandidateSucceeded
            /\ trace[k].res = "true" =>
                   /\ Done
                   /\ result.success = TRUE
                   /\ result.final_reason = "ocr_fallback_success"
                   /\ Len(result.attempts) >= 2
                   /\ result.attempts[Len(result.attempts)] =
                          ClickAttemptResult(TRUE, Origin, N, -2,
                                             "ocr_fallback_success", <<>>)
                   /\ \A j \in 1..(Len(result.attempts) - 1) :
                       /\ IsRoundAttempt(result.attempts[j])
                       /\ ~result.attempts[j].success
        /\ CandidateSucceeded => FallbackCalls = {}

\* two failed rounds, then the fallback reports success
C3_Witness ==
    /\ Strategy
    /\ Done
    /\ N = 2
    /\ \E k \in FallbackCalls : trace[k].res = "true"
    /\ result.success = TRUE
    /\ Len(result.attempts) = 3
    /\ result.attempts[1].reason = "verify_failed"
    /\ result.attempts[2].reason = "activate_or_foreground_check_failed"

(***************************************************************************)
(* C4.  As stated: whenever a verify callback is supplied, every round     *)
(* fails and a fallback is configured, the call returns success            *)
(* ("ocr_fallback_success") only if the fallback reported success and a    *)
(* further verify call at (0, 0), made after the fallback click, returned  *)
(* true.  This holds of the fallback runner._build_click_fallback builds   *)
(* around the verify action (C4_RunnerFallbackReverifies), not of a        *)
(* fallback the caller passes (C4_AnyFallbackReverifies).                  *)
(***************************************************************************)
SucceededByFallback ==
    /\ Done
    /\ result.success = TRUE
    /\ result.final_reason = "ocr_fallback_success"

\* the fallback clicked, then verify was called at (0, 0) and returned res
ReverifiedAfterFallbackClick(res) ==
    \E j \in Idx, k \in Idx :
        /\ j < k
        /\ trace[j].op = "ocr_click"
        /\ trace[j].res = "true"
        /\ trace[k].op = "verify"
        /\ trace[k].offset = -2
        /\ trace[k].point = Origin
        /\ trace[k].res = res
        /\ \A i \in Idx : InRound(trace[i], trace[i].round) => i < j

\* C4 as stated, for any fallback
C4_AnyFallbackReverifies ==
    (Strategy /\ call.verify_action = "callback" /\ call.fallback_action # "none") =>
        /\ SucceededByFallback =>
               /\ \E k \in FallbackCalls : trace[k].res = "true"
               /\ ReverifiedAfterFallbackClick("true")
        /\ (ReverifiedAfterFallbackClick("false") \/ ReverifiedAfterFallbackClick("raise")) =>
               (Done /\ result.success = FALSE)

\* C4 as amended: the fallback built by runner._build_click_fallback around
\* the verify action succeeds only through a passing verify call at (0, 0)
C4_RunnerFallbackReverifies ==
    (Strategy /\ call.verify_action = "callback" /\ call.fallback_action = "runner") =>
        /\ SucceededByFallback =>
               /\ \E k \in FallbackCalls : trace[k].res = "true"
               /\ ReverifiedAfterFallbackClick("true")
        /\ (ReverifiedAfterFallbackClick("false") \/ ReverifiedAfterFallbackClick("raise")) =>
               (Done /\ result.success = FALSE)

\* the runner's fallback clicked and its verify at (0, 0) confirmed
C4_Witness ==
    /\ Strategy
    /\ call.verify_action = "callback"
    /\ call.fallback_action = "runner"
    /\ N = 2
    /\ SucceededByFallback
    /\ ReverifiedAfterFallbackClick("true")

(***************************************************************************)
(* C5.  Within one round with a verify callback, candidates are clicked    *)
(* strictly in configured priority order; a candidate whose verify returns *)
(* false is recorded with reason "verify_failed" and the next candidate is *)
(* tried; the call returns at the first candidate whose verify returns     *)
(* true, with success = true, final_reason "ok_verified" and success_point *)
(* = base point + that candidate's offset, and no click follows it.        *)
(***************************************************************************)
Clicks == {k \in Idx : trace[k].op = "click"}

CandidateVerifies(res) ==
    {k \in Idx : trace[k].op = "verify" /\ trace[k].offset >= 0 /\ trace[k].res = res}

\* the base point the resolver returned in round r
ResolvedBase(r) ==
    {trace[k].point : k \in {j \in Idx : /\ trace[j].op = "point_provider"
                                         /\ trace[j].round = r
                                         /\ trace[j].res = "clickable"}}

OffsetPoint(base, i) ==
    <<base[1] + flow.click_candidates[i + 1][1],
      base[2] + flow.click_candidates[i + 1][2]>>

\* candidate i of round r was or is being tried
CandidateTried(r, i) ==
    \/ pc = "candidate" /\ round_index = r /\ offset_index = i
    \/ \E k \in AttIdx :
        attempts[k].round_index = r /\ attempts[k].offset_index = i

AttemptOf(r, i) ==
    {k \in AttIdx : attempts[k].round_index = r /\ attempts[k].offset_index = i}

C5_VerifyOrderAndFirstSuccess ==
    (Strategy /\ call.verify_action = "callback") =>
        /\ \A j \in Clicks, k \in Clicks :
            (j < k /\ trace[j].round = trace[k].round) =>
                trace[j].offset < trace[k].offset
        /\ \A k \in Clicks :
            /\ trace[k].offset \in 0..(M - 1)
            /\ \E base \in ResolvedBase(trace[k].round) :
                trace[k].point = OffsetPoint(base, trace[k].offset)
        /\ \A k \in CandidateVerifies("false") :
            /\ \E a \in AttemptOf(trace[k].round, trace[k].offset) :
                /\ attempts[a].reason = "verify_failed"
                /\ attempts[a].success = FALSE
                /\ attempts[a].point = trace[k].point
            /\ trace[k].offset + 1 < M =>
                   CandidateTried(trace[k].round, trace[k].offset + 1)
        /\ \A k \in CandidateVerifies("true") :
            /\ k = Len(trace)
            /\ Done
            /\ result.success = TRUE
            /\ result.final_reason = "ok_verified"
            /\ \E base \in ResolvedBase(trace[k].round) :
                result.success_point = OffsetPoint(base, trace[k].offset)
            /\ result.success_point = trace[k].point
            /\ \A j \in Clicks : j < k
        /\ (Done /\ result.success = TRUE /\ result.final_reason = "ok_verified") =>
               CandidateVerifies("true") # {}

\* the first candidate is refused by verify, the second one is accepted
C5_Witness ==
    /\ Strategy
    /\ Done
    /\ M = 2
    /\ result.success = TRUE
    /\ result.final_reason = "ok_verified"
    /\ result.success_point = <<4, 2>>
    /\ Len(result.attempts) = 2
    /\ result.attempts[1].reason = "verify_failed"
    /\ result.attempts[1].point = <<2, 2>>

(***************************************************************************)
(* C6.  With no verify callback, the first candidate that is clickable,    *)
(* whose click does not raise and (when foreground verification is         *)
(* enabled) after which the window is still in the foreground ends the     *)
(* call with success = true, final_reason "ok_without_verify" and          *)
(* success_point = that candidate point; exactly one successful click is   *)
(* injected and none after it.                                             *)
(***************************************************************************)
\* clicks that were injected and kept the window in the foreground
AcceptedClicks ==
    {k \in Clicks :
        /\ trace[k].res = "ok"
        /\ flow.click_verify_foreground_enabled =>
               /\ k < Len(trace)
               /\ trace[k + 1].op = "foreground_check"
               /\ trace[k + 1].res = "true"}

C6_FirstAcceptedClickWins ==
    (Strategy /\ call.verify_action = "none") =>
        /\ Cardinality(AcceptedClicks) <= 1
        /\ \A k \in AcceptedClicks :
            /\ Done
            /\ result.success = TRUE
            /\ result.final_reason = "ok_without_verify"
            /\ result.success_point = trace[k].point
            /\ is_point_in_rect(trace[k].point, trace[k].rect)
            /\ \A j \in Clicks : j <= k
            /\ \A j \in Idx : trace[j].op = "ocr_click" => j < k
            /\ result.attempts[Len(result.attempts)] =
                   ClickAttemptResult(TRUE, trace[k].point, trace[k].round,
                                      trace[k].offset, "ok_without_verify", <<>>)
        /\ (Done /\ result.success = TRUE /\ result.final_reason = "ok_without_verify") =>
               AcceptedClicks # {}

\* the first click loses the foreground, the second one is accepted
C6_Witness ==
    /\ Strategy
    /\ Done
    /\ call.verify_action = "none"
    /\ flow.click_verify_foreground_enabled
    /\ result.success = TRUE
    /\ result.final_reason = "ok_without_verify"
    /\ Cardinality(Clicks) = 2
    /\ Len(result.attempts) = 2
    /\ result.attempts[1].reason = "foreground_lost_after_click"

(***************************************************************************)
(* C7.  If the verify callback raises for a candidate, the exception is    *)
(* not propagated, the attempt is recorded with success = false and a      *)
(* reason starting with "verify_error:", success is never reported for     *)
(* that candidate, and the next candidate offset is tried; the same holds  *)
(* for a click injection that raises, recorded as "click_failed:<detail>", *)
(* with verify not invoked for that candidate.                             *)
(***************************************************************************)
\* candidate i of round r failed and the loop went on: to the next
\* candidate, or past the end of the round
WentOnAfter(r, i) ==
    /\ pc # "raised" \/ round_index > r
    /\ ~(Done /\ result.success = TRUE /\ result.attempts[Len(result.attempts)].round_index = r
              /\ result.attempts[Len(result.attempts)].offset_index = i)
    /\ IF i + 1 < M THEN CandidateTried(r, i + 1) ELSE RoundFailed(r)

RecordedFailure(r, i, point, reason) ==
    /\ Cardinality(AttemptOf(r, i)) = 1
    /\ \A a \in AttemptOf(r, i) :
        attempts[a] = ClickAttemptResult(FALSE, point, r, i, reason, Err)

C7_RaisingVerifyOrClickIsFailure ==
    Strategy =>
        /\ \A k \in CandidateVerifies("raise") :
            /\ RecordedFailure(trace[k].round, trace[k].offset, trace[k].point,
                               "verify_error")
            /\ WentOnAfter(trace[k].round, trace[k].offset)
        /\ \A k \in Clicks :
            trace[k].res = "raise" =>
                /\ RecordedFailure(trace[k].round, trace[k].offset, trace[k].point,
                                   "click_failed")
                /\ WentOnAfter(trace[k].round, trace[k].offset)
                /\ ~\E j \in Idx : /\ trace[j].op = "verify"
                                   /\ trace[j].round = trace[k].round
                                   /\ trace[j].offset = trace[k].offset
        /\ pc = "raised" => trace[Len(trace)].op \in {"activate", "recover"}

\* verify raises on the first candidate, the second one is verified
C7_Witness ==
    /\ Strategy
    /\ Done
    /\ M = 2
    /\ Len(attempts) = 2
    /\ attempts[1].reason = "verify_error"
    /\ attempts[2].reason = "ok_verified"
    /\ result.success = TRUE

(***************************************************************************)
(* C8.  In any round in which window activation or the foreground check    *)
(* fails, exactly one attempt is recorded for that round, with success =   *)
(* false and reason "activate_or_foreground_check_failed"; in that round   *)
(* the point provider is not called, no recovery is attempted and no click *)
(* is injected, and the round proceeds directly to the backoff step.       *)
(***************************************************************************)
FailedActivations ==
    {k \in Idx : trace[k].op = "activate" /\ trace[k].res = "false"}

C8_ActivationFailureEndsRound ==
    Strategy =>
        \A k \in FailedActivations :
            LET r == trace[k].round IN
            /\ Cardinality(RoundAttempts(r)) = 1
            /\ \A a \in RoundAttempts(r) :
                attempts[a] =
                    ClickAttemptResult(FALSE, Origin, r, -1,
                                       "activate_or_foreground_check_failed", <<>>)
            /\ \A j \in Idx :
                InRound(trace[j], r) => (j = k \/ (j = k + 1 /\ trace[j].op = "backoff_sleep"))
            /\ RoundFailed(r)
            /\ (r < N /\ ConfiguredBackoff(r) > 0) =>
                   /\ k < Len(trace)
                   /\ trace[k + 1].op = "backoff_sleep"
                   /\ trace[k + 1].round = r

\* activation fails in round 1 and the call goes on with round 2
C8_Witness ==
    /\ Strategy
    /\ N >= 2
    /\ round_index = 2
    /\ pc = "candidate"
    /\ Len(attempts) = 1
    /\ attempts[1].reason = "activate_or_foreground_check_failed"
    /\ Len(trace) = 4
    /\ trace[2].op = "backoff_sleep"

(***************************************************************************)
(* C9.  In _resolve_base_point_with_recover, when the resolved base point  *)
(* is not clickable: with recover_enabled false, window recovery is never  *)
(* invoked; with it true, recovery is invoked at most                      *)
(* window_auto_recover_max_attempts times within the round and after every *)
(* recovery the point provider is called again and the new point re-tested *)
(* before the round can be declared failed with                            *)
(* base_point_outside_work_rect; a base point is returned only if it was   *)
(* clickable against the visible rect read in the same iteration, and no   *)
(* click is injected in a round whose base point was not resolved.         *)
(***************************************************************************)
Recovers(r) == {k \in Idx : trace[k].op = "recover" /\ trace[k].round = r}

ProviderCalls(r) ==
    {k \in Idx : trace[k].op = "point_provider" /\ trace[k].round = r}

BaseFailures(r) ==
    {a \in RoundAttempts(r) :
        attempts[a].reason \in {"base_point_outside_work_rect",
                                "resolve_base_point_failed"}}

C9_RecoverAndResolve ==
    Strategy =>
        \A r \in 1..N :
            LET recs == Recovers(r)
                provs == ProviderCalls(r)
                last == IF provs \cup recs = {} THEN 0
                        ELSE CHOOSE k \in provs \cup recs :
                                 \A j \in provs \cup recs : j <= k
            IN
            /\ ~call.recover_enabled => recs = {}
            /\ Cardinality(recs) <= flow.window_auto_recover_max_attempts
            /\ \A k \in recs :
                /\ k > 1
                /\ trace[k - 1].op = "point_provider"
                /\ trace[k - 1].res = "not_clickable"
                /\ trace[k].res = "returned" =>
                       IF k = Len(trace)
                       THEN pc = "resolve" /\ round_index = r
                       ELSE /\ trace[k + 1].op = "point_provider"
                            /\ trace[k + 1].round = r
            /\ \A a \in BaseFailures(r) :
                /\ attempts[a].reason = "base_point_outside_work_rect" =>
                       /\ last \in provs
                       /\ trace[last].res = "not_clickable"
                       /\ attempts[a].detail = <<trace[last].point, trace[last].rect,
                                                 flow.click_point_guard_padding_px>>
                       /\ ~is_point_clickable(trace[last].point, trace[last].rect,
                                              flow.click_point_guard_padding_px)
                /\ \A k \in Clicks : trace[k].round # r
            /\ \A k \in provs :
                trace[k].res = "clickable" =>
                    /\ is_point_clickable(trace[k].point, trace[k].rect,
                                          flow.click_point_guard_padding_px)
                    /\ k = last
            /\ (pc = "candidate" /\ round_index = r) =>
                   /\ last \in provs
                   /\ trace[last].res = "clickable"
                   /\ trace[last].point = base_point
                   /\ trace[last].rect = visible_rect
            /\ \A k \in Clicks :
                trace[k].round = r =>
                    /\ last \in provs
                    /\ last < k
                    /\ trace[last].res = "clickable"

\* the point is outside, the window is recovered, the new point is clickable
\* against the rect read with it
C9_Witness ==
    /\ Strategy
    /\ call.recover_enabled
    /\ pc = "candidate"
    /\ round_index = 1
    /\ Cardinality(Recovers(1)) = 1
    /\ Len(trace) = 4
    /\ trace[2].res = "not_clickable"
    /\ trace[2].rect = <<0, 0, 4, 4>>
    /\ trace[4].res = "clickable"
    /\ visible_rect = <<0, 0, 6, 6>>
    /\ base_point = <<5, 2>>

(***************************************************************************)
(* Window recovery geometry (src/src/process_ops.py).                      *)
(*                                                                         *)
(* _compute_recovered_window_rect treats the two axes alike: it first      *)
(* settles the target size of an axis, then places the window on it.       *)
(***************************************************************************)
\* the resize forgets that the padding is on both sides
fit_size_single_padding(size, visible_size, padding, allow_resize) ==
    IF allow_resize THEN Min(size, Max(1, visible_size - padding)) ELSE size

\* target_width / target_height
fit_size(size, visible_size, padding, allow_resize) ==
    IF allow_resize THEN Min(size, Max(1, visible_size - padding * 2)) ELSE size

\* the clamp forgets the far edge
place_axis_no_far_clamp(pos, visible_pos, visible_size, target_size, padding) ==
    LET min_pos == visible_pos + padding
        max_pos == visible_pos + visible_size - target_size - padding
    IN IF max_pos < min_pos THEN visible_pos ELSE Max(pos, min_pos)

\* an oversized window is anchored to the padded origin
place_axis_padded_anchor(pos, visible_pos, visible_size, target_size, padding) ==
    LET min_pos == visible_pos + padding
        max_pos == visible_pos + visible_size - target_size - padding
    IN IF max_pos < min_pos THEN min_pos ELSE Min(Max(pos, min_pos), max_pos)

\* target_left / target_top
place_axis(pos, visible_pos, visible_size, target_size, padding) ==
    LET min_pos == visible_pos + padding
        max_pos == visible_pos + visible_size - target_size - padding
    IN IF max_pos < min_pos THEN visible_pos ELSE Min(Max(pos, min_pos), max_pos)

\* the far edge is computed from the size of the window before the resize
compute_recovered_window_rect_unsized(window_rect, visible, padding_px, allow_resize) ==
    LET padding == Max(0, padding_px)
        target_width == fit_size(window_rect[3], visible[3], padding, allow_resize)
        target_height == fit_size(window_rect[4], visible[4], padding, allow_resize)
        target_left == place_axis(window_rect[1], visible[1], visible[3],
                                  window_rect[3], padding)
        target_top == place_axis(window_rect[2], visible[2], visible[4],
                                 window_rect[4], padding)
    IN <<target_left, target_top, target_width, target_height>>

compute_recovered_window_rect(window_rect, visible, padding_px, allow_resize) ==
    LET padding == Max(0, padding_px)
        target_width == fit_size(window_rect[3], visible[3], padding, allow_resize)
        target_height == fit_size(window_rect[4], visible[4], padding, allow_resize)
        target_left == place_axis(window_rect[1], visible[1], visible[3],
                                  target_width, padding)
        target_top == place_axis(window_rect[2], visible[2], visible[4],
                                 target_height, padding)
    IN <<target_left, target_top, target_width, target_height>>

(***************************************************************************)
(* Specification of one call of _compute_recovered_window_rect.  A window  *)
(* rect and a work area have positive sides (_get_window_rect_by_hwnd and  *)
(* _get_monitor_work_rect_by_hwnd refuse any other).                       *)
(***************************************************************************)
WindowSides == 1..MaxSide
VisibleOrigins == {<<0, 0>>, <<1, -1>>}

RecoverRectInit ==
    /\ ClickIdle
    /\ CallIdle
    /\ \E left \in Coords, top \in Coords, width \in WindowSides,
          height \in WindowSides, origin \in VisibleOrigins,
          visible_width \in WindowSides, visible_height \in WindowSides,
          padding \in 0..MaxGuard, allow_resize \in BOOLEAN :
        pure = [fn |-> "compute_recovered_window_rect",
                window_rect |-> <<left, top, width, height>>,
                visible |-> <<origin[1], origin[2], visible_width, visible_height>>,
                padding_px |-> padding, allow_resize |-> allow_resize,
                done |-> FALSE, ret |-> <<>>]

CallComputeRecoveredWindowRect ==
    /\ pure.fn = "compute_recovered_window_rect"
    /\ ~pure.done
    /\ pure' = [pure EXCEPT !.done = TRUE,
                            !.ret = compute_recovered_window_rect(
                                        pure.window_rect, pure.visible,
                                        pure.padding_px, pure.allow_resize)]
    /\ UNCHANGED <<clickVars, callVars>>

SpecRecoverRect == RecoverRectInit /\ [][CallComputeRecoveredWindowRect]_vars

\* a finished call of _compute_recovered_window_rect
Recovered == pure.fn = "compute_recovered_window_rect" /\ pure.done

\* the sides of the visible rect less the padding on both sides
PaddedWidth == pure.visible[3] - 2 * pure.padding_px
PaddedHeight == pure.visible[4] - 2 * pure.padding_px

\* the returned rect lies inside the visible rect shrunk by the padding
InsidePadded ==
    /\ pure.ret[1] >= pure.visible[1] + pure.padding_px
    /\ pure.ret[1] + pure.ret[3] <= pure.visible[1] + pure.visible[3] - pure.padding_px
    /\ pure.ret[2] >= pure.visible[2] + pure.padding_px
    /\ pure.ret[2] + pure.ret[4] <= pure.visible[2] + pure.visible[4] - pure.padding_px

(***************************************************************************)
(* C11.  With allow_resize = false and a window no wider and no taller     *)
(* than the visible rect less twice the padding, the returned rect keeps   *)
(* the size of the window and lies inside the visible rect shrunk by the   *)
(* padding: left >= visible.left + padding, left + width <= visible.left + *)
(* visible.width - padding, and the same for top and height.               *)
(***************************************************************************)
C11_ClampedInsidePadded ==
    (/\ Recovered
     /\ ~pure.allow_resize
     /\ pure.window_rect[3] <= PaddedWidth
     /\ pure.window_rect[4] <= PaddedHeight) =>
        /\ pure.ret[3] = pure.window_rect[3]
        /\ pure.ret[4] = pure.window_rect[4]
        /\ InsidePadded

\* the shape of the test: a window off the top-left corner is moved to the
\* padded origin and keeps its size
C11_Witness ==
    /\ Recovered
    /\ ~pure.allow_resize
    /\ pure.window_rect = <<-1, -1, 1, 1>>
    /\ pure.visible = <<0, 0, 4, 4>>
    /\ pure.padding_px = 1
    /\ pure.ret = <<1, 1, 1, 1>>

(***************************************************************************)
(* C12.  Whenever the window, after any permitted resizing, is larger than *)
(* the padded visible area, _compute_recovered_window_rect returns a rect  *)
(* whose top-left corner is the origin of the visible area.                *)
(*                                                                         *)
(* As stated (C12_OversizedAnchoredAtOrigin) this fails for a window that  *)
(* is too large on one axis only: the code decides each axis by itself.    *)
(* What holds (C12_OversizedAxisAnchored): the call returns four integers, *)
(* and on each axis where the target size exceeds the padded visible size  *)
(* the returned coordinate is the visible origin's coordinate; the other   *)
(* axis is clamped as usual.                                               *)
(***************************************************************************)
C12_OversizedAnchoredAtOrigin ==
    (Recovered /\ (pure.ret[3] > PaddedWidth \/ pure.ret[4] > PaddedHeight)) =>
        /\ pure.ret[1] = pure.visible[1]
        /\ pure.ret[2] = pure.visible[2]

C12_OversizedAxisAnchored ==
    Recovered =>
        /\ Len(pure.ret) = 4
        /\ \A i \in 1..4 : pure.ret[i] \in Int
        /\ pure.ret[3] > PaddedWidth => pure.ret[1] = pure.visible[1]
        /\ pure.ret[4] > PaddedHeight => pure.ret[2] = pure.visible[2]
        /\ (pure.ret[3] > PaddedWidth /\ pure.ret[4] > PaddedHeight) =>
               <<pure.ret[1], pure.ret[2]>> = <<pure.visible[1], pure.visible[2]>>

\* a window wider than the padded area but not taller: left is anchored to
\* the visible origin (not to the padded origin), top is clamped
C12_Witness ==
    /\ Recovered
    /\ ~pure.allow_resize
    /\ pure.window_rect = <<3, 2, 4, 1>>
    /\ pure.visible = <<1, -1, 4, 4>>
    /\ pure.padding_px = 1
    /\ pure.ret = <<1, 1, 4, 1>>

(***************************************************************************)
(* C13.  With allow_resize = false the returned width and height are the   *)
(* window's.  With allow_resize = true the returned size is                *)
(* (min(w, max(1, vis_w - 2 * padding)), min(h, max(1, vis_h - 2 *         *)
(* padding))) and, whenever vis_w > 2 * padding and vis_h > 2 * padding,   *)
(* the returned rect lies inside the visible rect shrunk by the padding.   *)
(***************************************************************************)
C13_ResizeFitsPaddedArea ==
    Recovered =>
        /\ ~pure.allow_resize =>
               /\ pure.ret[3] = pure.window_rect[3]
               /\ pure.ret[4] = pure.window_rect[4]
        /\ pure.allow_resize =>
               /\ pure.ret[3] = Min(pure.window_rect[3], Max(1, PaddedWidth))
               /\ pure.ret[4] = Min(pure.window_rect[4], Max(1, PaddedHeight))
               /\ (PaddedWidth > 0 /\ PaddedHeight > 0) => InsidePadded

\* the shape of the test: a window larger than the visible area is shrunk
\* to the padded area and placed at the padded origin
C13_Witness ==
    /\ Recovered
    /\ pure.allow_resize
    /\ pure.window_rect = <<0, 0, 4, 4>>
    /\ pure.visible = <<0, 0, 3, 4>>
    /\ pure.padding_px = 1
    /\ pure.ret = <<1, 1, 1, 2>>

(***************************************************************************)
(* The call stack of the window and scene routines.                        *)
(*                                                                         *)
(* A frame is the activation record of one routine: its name, its position *)
(* pc, the value `ret' its last callee returned, and its arguments and     *)
(* locals.  The last frame of `frames' is the one that runs.  No routine   *)
(* modelled here catches what its callee raises, so a raise unwinds the    *)
(* whole stack.                                                            *)
(***************************************************************************)
None == "None"          \* Python's None where a string is expected
NoRect == <<>>          \* Python's None where a rect is expected
NoWindow == 0           \* Python's None where a window handle is expected

Top == frames[Len(frames)]
Running(fn, at) == frames # <<>> /\ Top.fn = fn /\ Top.pc = at
Goto(frame) == frames' = [frames EXCEPT ![Len(frames)] = frame]

\* one interaction with the outside: what was called, on what, what came
\* back, and the time the caller last read
Step(op, arg, res, now) == [op |-> op, arg |-> arg, res |-> res, now |-> now]

\* the routine on top returns value: to its caller, which finds it in ret,
\* or, for the outermost routine, as the outcome of the whole call
ReturnValue(value) ==
    IF Len(frames) = 1
    THEN /\ frames' = <<[Top EXCEPT !.pc = "done", !.ret = value]>>
         /\ outcome' = [kind |-> "returned", value |-> value]
    ELSE /\ frames' = [SubSeq(frames, 1, Len(frames) - 1)
                           EXCEPT ![Len(frames) - 1].ret = value]
         /\ outcome' = outcome

\* the routine on top calls callee and will go on at caller.pc
Invoke(caller, callee) ==
    frames' = Append([frames EXCEPT ![Len(frames)] = caller], callee)

\* an exception leaves the routine on top and every caller below it
Raise(error) ==
    /\ frames' = <<[frames[1] EXCEPT !.pc = "raised"]>>
    /\ outcome' = [kind |-> "raised", error |-> error]

(***************************************************************************)
(* recover_window_to_visible (src/src/process_ops.py).                     *)
(***************************************************************************)
RecoverPaddings == {-1, 1}
BeforeRects == {<<-1, -1, 2, 2>>, <<1, 1, 2, 2>>, <<0, 0, 4, 4>>}
WorkRects == {<<0, 0, 3, 3>>}
VirtualRects == {<<0, 0, 4, 3>>}
Hwnd == 1

RecoverFrame(padding_px, allow_resize) ==
    [fn |-> "recover_window_to_visible", pc |-> "import_win32con", ret |-> None,
     padding_px |-> padding_px, allow_resize |-> allow_resize,
     hwnd |-> NoWindow, before_rect |-> NoRect, virtual_rect |-> NoRect,
     visible |-> NoRect, target_rect |-> NoRect, nosize |-> FALSE]

\* the dict the routine returns
RecoverOutcome(success, hwnd, before_rect, after_rect, reason, detail) ==
    [success |-> success, hwnd |-> hwnd, before_rect |-> before_rect,
     after_rect |-> after_rect, reason |-> reason, detail |-> detail]

RecoverInit ==
    /\ ClickIdle
    /\ pure = IdlePure
    /\ \E padding_px \in RecoverPaddings, allow_resize \in BOOLEAN :
           frames = <<RecoverFrame(padding_px, allow_resize)>>
    /\ steps = <<>>
    /\ clock = 0
    /\ outcome = NoOutcome

\* import win32con fails: reported as an outcome
RecoverImportError ==
    /\ Running("recover_window_to_visible", "import_win32con")
    /\ ReturnValue(RecoverOutcome(FALSE, NoWindow, NoRect, NoRect,
                                  "win32con_import_error", Err))
    /\ steps' = Append(steps, Step("import_win32con", <<>>, "exc", clock))
    /\ UNCHANGED <<clickVars, pure, clock>>

RecoverImported ==
    /\ Running("recover_window_to_visible", "import_win32con")
    /\ Goto([Top EXCEPT !.pc = "select_window"])
    /\ steps' = Append(steps, Step("import_win32con", <<>>, "ok", clock))
    /\ UNCHANGED <<clickVars, pure, clock, outcome>>

\* _import_win32gui or select_latest_active_window raises: neither call is
\* inside a try block
RecoverLookupRaised ==
    /\ Running("recover_window_to_visible", "select_window")
    /\ Raise(Err)
    /\ steps' = Append(steps, Step("select_window", <<>>, "exc", clock))
    /\ UNCHANGED <<clickVars, pure, clock>>

RecoverWindowNotFound ==
    /\ Running("recover_window_to_visible", "select_window")
    /\ ReturnValue(RecoverOutcome(FALSE, NoWindow, NoRect, NoRect,
                                  "window_not_found", <<>>))
    /\ steps' = Append(steps, Step("select_window", <<>>, "none", clock))
    /\ UNCHANGED <<clickVars, pure, clock>>

RecoverWindowFound ==
    /\ Running("recover_window_to_visible", "select_window")
    /\ Goto([Top EXCEPT !.pc = "read_before", !.hwnd = Hwnd])
    /\ steps' = Append(steps, Step("select_window", <<>>, "found", clock))
    /\ UNCHANGED <<clickVars, pure, clock, outcome>>

RecoverReadBeforeFailed ==
    /\ Running("recover_window_to_visible", "read_before")
    /\ ReturnValue(RecoverOutcome(FALSE, Top.hwnd, NoRect, NoRect,
                                  "read_before_rect_failed", Err))
    /\ steps' = Append(steps, Step("get_window_rect", <<>>, "exc", clock))
    /\ UNCHANGED <<clickVars, pure, clock>>

\* the rect is read; activate_window is then called and whatever it raises
\* is dropped
RecoverReadBefore ==
    /\ Running("recover_window_to_visible", "read_before")
    /\ \E before_rect \in BeforeRects, activated \in {"ok", "exc"} :
        /\ Goto([Top EXCEPT !.pc = "virtual_rect", !.before_rect = before_rect])
        /\ steps' = steps \o <<Step("get_window_rect", before_rect, "ok", clock),
                               Step("activate_window", <<>>, activated, clock)>>
    /\ UNCHANGED <<clickVars, pure, clock, outcome>>

\* _get_virtual_screen_rect raises ValueError on abnormal screen metrics,
\* outside any try block
RecoverVirtualRectRaised ==
    /\ Running("recover_window_to_visible", "virtual_rect")
    /\ Raise(Err)
    /\ steps' = Append(steps, Step("get_virtual_screen_rect", <<>>, "exc", clock))
    /\ UNCHANGED <<clickVars, pure, clock>>

\* the flags handed to SetWindowPos carry SWP_NOSIZE
swp_nosize(target_rect, before_rect, allow_resize) ==
    \/ target_rect[3] = before_rect[3] /\ target_rect[4] = before_rect[4]
    \/ ~allow_resize

\* the virtual desktop and the monitor work area are read (the work area
\* falls back to the virtual desktop), and the target rect is computed
RecoverTargetComputed ==
    /\ Running("recover_window_to_visible", "virtual_rect")
    /\ \E virtual_rect \in VirtualRects, work \in WorkRects \cup {NoRect} :
        LET visible == IF work = NoRect THEN virtual_rect ELSE work
            target_rect == compute_recovered_window_rect(
                               Top.before_rect, visible,
                               Max(0, Top.padding_px), Top.allow_resize)
        IN /\ Goto([Top EXCEPT
                       !.pc = "set_window_pos",
                       !.virtual_rect = virtual_rect,
                       !.visible = visible,
                       !.target_rect = target_rect,
                       !.nosize = swp_nosize(target_rect, Top.before_rect,
                                             Top.allow_resize)])
           /\ steps' = steps \o
                  <<Step("get_virtual_screen_rect", virtual_rect, "ok", clock),
                    Step("get_monitor_work_rect", work,
                         IF work = NoRect THEN "exc" ELSE "ok", clock)>>
    /\ UNCHANGED <<clickVars, pure, clock, outcome>>

RecoverSetWindowPosFailed ==
    /\ Running("recover_window_to_visible", "set_window_pos")
    /\ ReturnValue(RecoverOutcome(FALSE, Top.hwnd, Top.before_rect, NoRect,
                                  "set_window_pos_failed", Err))
    /\ steps' = Append(steps, Step("set_window_pos", Top.target_rect, "exc", clock))
    /\ UNCHANGED <<clickVars, pure, clock>>

RecoverSetWindowPos ==
    /\ Running("recover_window_to_visible", "set_window_pos")
    /\ Goto([Top EXCEPT !.pc = "read_after"])
    /\ steps' = Append(steps, Step("set_window_pos", Top.target_rect, "ok", clock))
    /\ UNCHANGED <<clickVars, pure, clock, outcome>>

RecoverReadAfterFailed ==
    /\ Running("recover_window_to_visible", "read_after")
    /\ ReturnValue(RecoverOutcome(FALSE, Top.hwnd, Top.before_rect, NoRect,
                                  "read_after_rect_failed", Err))
    /\ steps' = Append(steps, Step("get_window_rect", <<>>, "exc", clock))
    /\ UNCHANGED <<clickVars, pure, clock>>

\* the rect the window manager reports after SetWindowPos: the target (its
\* size left alone under SWP_NOSIZE), or the old rect if it moved nothing
after_rects(frame) ==
    {frame.before_rect,
     IF frame.nosize
     THEN <<frame.target_rect[1], frame.target_rect[2],
            frame.before_rect[3], frame.before_rect[4]>>
     ELSE frame.target_rect}

\* success is reported with a reason that tells whether the rect changed
recover_reason(before_rect, after_rect) ==
    IF before_rect # after_rect THEN "window_moved" ELSE "window_unchanged"

RecoverDone ==
    /\ Running("recover_window_to_visible", "read_after")
    /\ \E after_rect \in after_rects(Top) :
        /\ ReturnValue(RecoverOutcome(TRUE, Top.hwnd, Top.before_rect, after_rect,
                                      recover_reason(Top.before_rect, after_rect),
                                      <<>>))
        /\ steps' = Append(steps, Step("get_window_rect", after_rect, "ok", clock))
    /\ UNCHANGED <<clickVars, pure, clock>>

RecoverNext ==
    \/ RecoverImportError
    \/ RecoverImported
    \/ RecoverLookupRaised
    \/ RecoverWindowNotFound
    \/ RecoverWindowFound
    \/ RecoverReadBeforeFailed
    \/ RecoverReadBefore
    \/ RecoverVirtualRectRaised
    \/ RecoverTargetComputed
    \/ RecoverSetWindowPosFailed
    \/ RecoverSetWindowPos
    \/ RecoverReadAfterFailed
    \/ RecoverDone

SpecRecover == RecoverInit /\ [][RecoverNext]_vars

(***************************************************************************)
(* C14.  recover_window_to_visible reports every recovery failure as a     *)
(* returned outcome with success = false and never by raising:             *)
(* "window_not_found" when no window matches (and then no geometry change  *)
(* is attempted), "read_before_rect_failed", "set_window_pos_failed" or    *)
(* "read_after_rect_failed" for the respective step; a failure to bring    *)
(* the window to the foreground is not fatal; success = true is returned   *)
(* only after the geometry was applied and the window rect was re-read as  *)
(* after_rect.                                                             *)
(***************************************************************************)
RecoverReturned ==
    /\ outcome.kind = "returned"
    /\ frames[1].fn = "recover_window_to_visible"
StepIdx == 1..Len(steps)
LastStep == steps[Len(steps)]

\* no failure of a step leaves the routine as an exception
RecoveryNeverRaises == outcome.kind # "raised"

\* each returned outcome names the step that failed, and success follows
\* SetWindowPos and the second read of the rect
RecoveryOutcomesNameTheStep ==
    RecoverReturned =>
        LET out == outcome.value
        IN /\ out.reason = "window_not_found" <=>
                  (LastStep.op = "select_window" /\ LastStep.res = "none")
           /\ out.reason = "window_not_found" =>
                  /\ ~out.success
                  /\ \A i \in StepIdx : steps[i].op # "set_window_pos"
           /\ out.reason = "read_before_rect_failed" <=>
                  /\ LastStep.op = "get_window_rect" /\ LastStep.res = "exc"
                  /\ \A i \in StepIdx : steps[i].op # "set_window_pos"
           /\ out.reason = "set_window_pos_failed" <=>
                  (LastStep.op = "set_window_pos" /\ LastStep.res = "exc")
           /\ out.reason = "read_after_rect_failed" <=>
                  /\ LastStep.op = "get_window_rect" /\ LastStep.res = "exc"
                  /\ \E i \in StepIdx : steps[i].op = "set_window_pos"
           /\ LastStep.res = "exc" => ~out.success
           /\ \A i \in StepIdx :
                  steps[i].op = "activate_window" => i < Len(steps)
           /\ out.success <=>
                  /\ Len(steps) >= 2
                  /\ steps[Len(steps) - 1].op = "set_window_pos"
                  /\ steps[Len(steps) - 1].res = "ok"
                  /\ LastStep.op = "get_window_rect"
                  /\ LastStep.res = "ok"
                  /\ LastStep.arg = out.after_rect

C14_RecoveryFailuresAreReturned ==
    RecoveryNeverRaises /\ RecoveryOutcomesNameTheStep

(***************************************************************************)
(* Scene detection (src/src/runner.py).                                    *)
(*                                                                         *)
(* A scene checker is a name and a predicate on the screen.  The names are *)
(* those given by _build_scene_checkers, in its order: the channel         *)
(* selection, the character selection and the in-game scene.  Which        *)
(* checkers exist depends on the resolvers the caller has, so the list is  *)
(* any sub-list; a predicate is evaluated by the outside world and comes   *)
(* back "true", "false" or "exc" (it raised).  Indices are 0-based as in   *)
(* the code; checker index i is scene_checkers[i + 1] here.                *)
(***************************************************************************)
MaxRounds == 2          \* rounds of _template_exception_flow range over 0..MaxRounds

SceneNames == <<"channel_select", "character_select", "in_game">>
InGame == "in_game"

\* the checkers built from the resolvers in S, in the order of SceneNames
CheckersOf(S) ==
    LET pick[T \in SUBSET (1..Len(SceneNames))] ==
            IF T = {} THEN <<>>
            ELSE LET m == CHOOSE i \in T : \A j \in T : i <= j
                 IN <<SceneNames[m]>> \o pick[T \ {m}]
    IN pick[S]

CheckerLists == {CheckersOf(S) : S \in SUBSET (1..Len(SceneNames))}
CheckResults == {"true", "false", "exc"}

\* list(range(first, last)) and list(range(first, last, -1))
range_up(first, last) ==
    [i \in 1..Max(0, last - first) |-> first + i - 1]
range_down(first, last) ==
    [i \in 1..Max(0, first - last) |-> first - i + 1]

\* a scene, as opposed to None (`if scene:'; no checker has an empty name)
Truthy(scene) == scene # None

\* a raising predicate counts as a match
checker_matched_or_raised(res) == res # "false"

\* `if checker.check()' inside the try block: a raise is no match
checker_matched(res) == res = "true"

ScanFrame(scene_checkers, indices) ==
    [fn |-> "scan_scene_checkers", pc |-> "loop", ret |-> None,
     scene_checkers |-> scene_checkers, indices |-> indices, pos |-> 1]

\* the predicate of the next index is true: its name is returned
ScanCheckerMatched ==
    /\ Running("scan_scene_checkers", "loop")
    /\ Top.pos <= Len(Top.indices)
    /\ \E res \in CheckResults :
        /\ checker_matched(res)
        /\ steps' = Append(steps, Step("check", Top.indices[Top.pos], res, clock))
    /\ ReturnValue(Top.scene_checkers[Top.indices[Top.pos] + 1])
    /\ UNCHANGED <<clickVars, pure, clock>>

\* the predicate is false, or raises and is logged: on to the next index
ScanCheckerNoMatch ==
    /\ Running("scan_scene_checkers", "loop")
    /\ Top.pos <= Len(Top.indices)
    /\ \E res \in CheckResults :
        /\ ~checker_matched(res)
        /\ steps' = Append(steps, Step("check", Top.indices[Top.pos], res, clock))
    /\ Goto([Top EXCEPT !.pos = @ + 1])
    /\ UNCHANGED <<clickVars, pure, clock, outcome>>

ScanExhausted ==
    /\ Running("scan_scene_checkers", "loop")
    /\ Top.pos > Len(Top.indices)
    /\ ReturnValue(None)
    /\ UNCHANGED <<clickVars, pure, clock, steps>>

\* _detect_scene
DetectFrame(scene_checkers) ==
    [fn |-> "detect_scene", pc |-> "scan", ret |-> None,
     scene_checkers |-> scene_checkers]

DetectSceneScan ==
    /\ Running("detect_scene", "scan")
    /\ Invoke([Top EXCEPT !.pc = "return"],
              ScanFrame(Top.scene_checkers, range_up(0, Len(Top.scene_checkers))))
    /\ UNCHANGED <<clickVars, pure, clock, steps, outcome>>

DetectSceneReturn ==
    /\ Running("detect_scene", "return")
    /\ ReturnValue(Top.ret)
    /\ UNCHANGED <<clickVars, pure, clock, steps>>

\* _find_scene_index: the first index with the name, NoIndex for None
NoIndex == -1
find_scene_index(scene_checkers, scene_name) ==
    IF \E i \in 1..Len(scene_checkers) : scene_checkers[i] = scene_name
    THEN (CHOOSE i \in 1..Len(scene_checkers) :
              /\ scene_checkers[i] = scene_name
              /\ \A j \in 1..(i - 1) : scene_checkers[j] # scene_name) - 1
    ELSE NoIndex

\* the backward scan leaves out the expected index
backward_indices_skip_expected(expected_index) == range_down(expected_index - 1, -1)

forward_indices(expected_index, n) == range_up(expected_index, n)
backward_indices(expected_index) == range_down(expected_index, -1)

\* _template_exception_flow
TemplateFrame(expected_scene, scene_checkers, rounds) ==
    [fn |-> "template_exception_flow", pc |-> "start", ret |-> None,
     expected_scene |-> expected_scene, scene_checkers |-> scene_checkers,
     rounds |-> rounds, expected_index |-> NoIndex, round_index |-> 0]

TemplateFlowSkipped ==
    /\ Running("template_exception_flow", "start")
    /\ Top.scene_checkers = <<>> \/ Top.rounds <= 0
    /\ ReturnValue(None)
    /\ UNCHANGED <<clickVars, pure, clock, steps>>

TemplateFlowStart ==
    /\ Running("template_exception_flow", "start")
    /\ Top.scene_checkers # <<>>
    /\ Top.rounds > 0
    /\ LET found == find_scene_index(Top.scene_checkers, Top.expected_scene)
       IN Goto([Top EXCEPT !.pc = "forward", !.round_index = 1,
                           !.expected_index = IF found = NoIndex THEN 0 ELSE found])
    /\ UNCHANGED <<clickVars, pure, clock, steps, outcome>>

TemplateFlowForward ==
    /\ Running("template_exception_flow", "forward")
    /\ Top.round_index <= Top.rounds
    /\ Invoke([Top EXCEPT !.pc = "forward_done"],
              ScanFrame(Top.scene_checkers,
                        forward_indices(Top.expected_index, Len(Top.scene_checkers))))
    /\ UNCHANGED <<clickVars, pure, clock, steps, outcome>>

TemplateFlowForwardMatched ==
    /\ Running("template_exception_flow", "forward_done")
    /\ Truthy(Top.ret)
    /\ ReturnValue(Top.ret)
    /\ UNCHANGED <<clickVars, pure, clock, steps>>

TemplateFlowBackward ==
    /\ Running("template_exception_flow", "forward_done")
    /\ ~Truthy(Top.ret)
    /\ Invoke([Top EXCEPT !.pc = "backward_done"],
              ScanFrame(Top.scene_checkers, backward_indices(Top.expected_index)))
    /\ UNCHANGED <<clickVars, pure, clock, steps, outcome>>

TemplateFlowBackwardMatched ==
    /\ Running("template_exception_flow", "backward_done")
    /\ Truthy(Top.ret)
    /\ ReturnValue(Top.ret)
    /\ UNCHANGED <<clickVars, pure, clock, steps>>

TemplateFlowNextRound ==
    /\ Running("template_exception_flow", "backward_done")
    /\ ~Truthy(Top.ret)
    /\ Goto([Top EXCEPT !.pc = "forward", !.round_index = @ + 1])
    /\ UNCHANGED <<clickVars, pure, clock, steps, outcome>>

TemplateFlowExhausted ==
    /\ Running("template_exception_flow", "forward")
    /\ Top.round_index > Top.rounds
    /\ ReturnValue(None)
    /\ UNCHANGED <<clickVars, pure, clock, steps>>

ScanNext ==
    \/ ScanCheckerMatched
    \/ ScanCheckerNoMatch
    \/ ScanExhausted

\* the rounds of a call that has checkers and rounds > 0
TemplateFlowRounds ==
    \/ TemplateFlowStart
    \/ TemplateFlowForward
    \/ TemplateFlowForwardMatched
    \/ TemplateFlowBackward
    \/ TemplateFlowBackwardMatched
    \/ TemplateFlowNextRound
    \/ TemplateFlowExhausted

TemplateFlowNext ==
    \/ TemplateFlowSkipped
    \/ TemplateFlowRounds

(***************************************************************************)
(* Specification of one call of _detect_scene or _template_exception_flow. *)
(***************************************************************************)
SceneInit ==
    /\ ClickIdle
    /\ pure = IdlePure
    /\ \E scene_checkers \in CheckerLists :
        \/ frames = <<DetectFrame(scene_checkers)>>
        \/ \E expected_scene \in {SceneNames[i] : i \in 1..Len(SceneNames)},
              rounds \in 0..MaxRounds :
               frames = <<TemplateFrame(expected_scene, scene_checkers, rounds)>>
    /\ steps = <<>>
    /\ clock = 0
    /\ outcome = NoOutcome

SceneNext ==
    \/ DetectSceneScan
    \/ DetectSceneReturn
    \/ ScanNext
    \/ TemplateFlowNext

SpecScene == SceneInit /\ [][SceneNext]_vars

(***************************************************************************)
(* Vocabulary of the scene properties.                                     *)
(***************************************************************************)
\* the outermost routine is fn and has returned
Returned(fn) == outcome.kind = "returned" /\ frames[1].fn = fn
Entry == frames[1]
Checks == {i \in StepIdx : steps[i].op = "check"}

(***************************************************************************)
(* C15.  _detect_scene evaluates the scene checkers in list order and      *)
(* returns the name of the first checker whose predicate is true; a        *)
(* predicate that raises is treated as no match and its exception never    *)
(* reaches the caller; if no predicate is true the result is None.         *)
(***************************************************************************)
C15_DetectFirstMatchInOrder ==
    /\ (frames # <<>> /\ Entry.fn = "detect_scene") => outcome.kind # "raised"
    /\ Returned("detect_scene") =>
        LET n == Len(Entry.scene_checkers)
            m == Len(steps)
        IN /\ m <= n
           /\ \A i \in 1..m : steps[i].op = "check" /\ steps[i].arg = i - 1
           /\ \A i \in 1..(m - 1) : steps[i].res # "true"
           /\ IF m > 0 /\ steps[m].res = "true"
              THEN outcome.value = Entry.scene_checkers[m]
              ELSE outcome.value = None /\ m = n

\* the first checker raises, the second says no, the third matches
C15_Witness ==
    /\ Returned("detect_scene")
    /\ Len(Entry.scene_checkers) = 3
    /\ Len(steps) = 3
    /\ steps[1].res = "exc"
    /\ steps[2].res = "false"
    /\ steps[3].res = "true"
    /\ outcome.value = InGame

(***************************************************************************)
(* C16.  In _template_exception_flow with the expected scene at index k of *)
(* n checkers, each round evaluates checkers k, k+1, ..., n-1 in that      *)
(* order and, only if none matched, checkers k, k-1, ..., 0 in that order; *)
(* the checker at index k is evaluated once in each scan; the first match  *)
(* in either direction is returned at once; at most `rounds' rounds are    *)
(* performed, and None is returned if nothing matched, if rounds <= 0 or   *)
(* if the checker list is empty.                                           *)
(***************************************************************************)
\* index of the expected scene (0 when it has no checker)
ExpectedK ==
    IF \E i \in 1..Len(Entry.scene_checkers) :
           Entry.scene_checkers[i] = Entry.expected_scene
    THEN (CHOOSE i \in 1..Len(Entry.scene_checkers) :
              Entry.scene_checkers[i] = Entry.expected_scene) - 1
    ELSE 0

\* checker evaluations of one round: n - k forward, k + 1 backward
RoundLength == Len(Entry.scene_checkers) + 1

\* the index evaluated at position j (from 1) of a run that never matches
ScheduledIndex(j) ==
    LET o == (j - 1) % RoundLength
        forward == Len(Entry.scene_checkers) - ExpectedK
    IN IF o < forward THEN ExpectedK + o ELSE ExpectedK - (o - forward)

C16_ForwardThenBackwardScan ==
    /\ (frames # <<>> /\ Entry.fn = "template_exception_flow") =>
           outcome.kind # "raised"
    /\ Returned("template_exception_flow") =>
        LET m == Len(steps)
            all == IF Entry.scene_checkers = <<>> \/ Entry.rounds <= 0
                   THEN 0 ELSE Entry.rounds * RoundLength
        IN /\ m <= all
           /\ \A j \in 1..m :
                  steps[j].op = "check" /\ steps[j].arg = ScheduledIndex(j)
           /\ \A j \in 1..(m - 1) : steps[j].res # "true"
           /\ IF m > 0 /\ steps[m].res = "true"
              THEN outcome.value = Entry.scene_checkers[steps[m].arg + 1]
              ELSE outcome.value = None /\ m = all

\* expected scene at index 1 of 3, two rounds: the first round finds
\* nothing in 1, 2 and 1, 0; the second finds checker 0 on the way back
C16_Witness ==
    /\ Returned("template_exception_flow")
    /\ Entry.scene_checkers = SceneNames
    /\ Entry.expected_scene = "character_select"
    /\ Entry.rounds = 2
    /\ [j \in 1..Len(steps) |-> steps[j].arg] = <<1, 2, 1, 0, 1, 2, 1, 0>>
    /\ outcome.value = "channel_select"

(***************************************************************************)
(* OCR exception flow (src/src/runner.py, src/src/ocr_ops.py).             *)
(*                                                                         *)
(* A text is a sequence of symbols; each symbol stands for a run of        *)
(* characters that the keywords and markers never split: "send" for 发送,  *)
(* "mail" for 邮件, "box" for 保管箱, "err" for 错误, "ok" for 确定 and    *)
(* " " for white space.  `keyword in text' is the test for a contiguous    *)
(* sub-sequence.  A score is a percentage, NoScore for None.               *)
(***************************************************************************)
NoScore == -1
ocr_keyword_min_score == 50
Space == " "
mailbox_markers == << <<"send", "mail">>, <<"mail", "box">> >>

\* keyword in text
Contains(text, keyword) ==
    \E i \in 0..(Len(text) - Len(keyword)) :
        SubSeq(text, i + 1, i + Len(keyword)) = keyword

\* the text is compared as it was recognised
keep_whitespace(text) == text

\* "".join(str(text).split())
remove_whitespace(text) == SelectSeq(text, LAMBDA c : c # Space)

OcrItem(text, score, bbox) == [text |-> text, score |-> score, bbox |-> bbox]

\* an item without a score fails every positive threshold
find_keyword_items_unscored_dropped(items, keywords, min_score) ==
    IF items = <<>> \/ keywords = <<>>
    THEN <<>>
    ELSE SelectSeq(items,
             LAMBDA item :
                 /\ item.text # <<>>
                 /\ \E k \in 1..Len(keywords) : Contains(item.text, keywords[k])
                 /\ (IF item.score # NoScore THEN item.score ELSE 0) >= min_score)

\* find_keyword_items (src/src/ocr_ops.py)
find_keyword_items(items, keywords, min_score) ==
    IF items = <<>> \/ keywords = <<>>
    THEN <<>>
    ELSE SelectSeq(items,
             LAMBDA item :
                 /\ item.text # <<>>
                 /\ \E k \in 1..Len(keywords) : Contains(item.text, keywords[k])
                 /\ (IF item.score # NoScore THEN item.score ELSE 100) >= min_score)

\* the mailbox rule: some matched item carries a marker once its white
\* space is removed
is_mailbox(matched) ==
    \E i \in 1..Len(matched), m \in 1..Len(mailbox_markers) :
        Contains(remove_whitespace(matched[i].text), mailbox_markers[m])

\* key of clickable.sort: `item.score or 1.0'
sort_key(item) == IF item.score = NoScore \/ item.score = 0 THEN 100 ELSE item.score

\* clickable[0] after the stable sort by descending key
first_by_score(clickable) ==
    clickable[CHOOSE i \in 1..Len(clickable) :
                  /\ \A j \in 1..Len(clickable) :
                         sort_key(clickable[j]) <= sort_key(clickable[i])
                  /\ \A j \in 1..(i - 1) :
                         sort_key(clickable[j]) < sort_key(clickable[i])]

\* the switch is on
keyboard_actions_forced == TRUE

\* keyboard_actions_enabled = False
keyboard_actions_enabled == FALSE

\* the recovery actions the flow goes through, in order: the two keys when
\* the keyboard switch is on, then the click on the best clickable item
\* when there is one and it has a bounding box
recovery_actions(items, clickable_keywords, min_score) ==
    LET clickable == find_keyword_items(items, clickable_keywords, min_score)
    IN (IF keyboard_actions_enabled
        THEN <<[op |-> "press_key", arg |-> "esc"],
               [op |-> "press_key", arg |-> "enter"]>>
        ELSE <<>>) \o
       (IF clickable # <<>> /\ clickable_keywords # <<>>
           /\ first_by_score(clickable).bbox # NoRect
        THEN <<[op |-> "click_bbox_center", arg |-> first_by_score(clickable).bbox]>>
        ELSE <<>>)

\* what ocr_window_items may recognise
BoxA == <<0, 0, 2, 2>>
BoxB == <<2, 2, 4, 4>>
OcrItems ==
    {OcrItem(<<"send", Space, "mail">>, 90, NoRect),
     OcrItem(<<"mail", "box">>, NoScore, BoxA),
     OcrItem(<<"mail">>, 90, NoRect),
     OcrItem(<<"err">>, 90, NoRect),
     OcrItem(<<"err">>, 30, NoRect),
     OcrItem(<<"err", "ok">>, 90, BoxA),
     OcrItem(<<"ok">>, NoScore, BoxB),
     OcrItem(<<"ok">>, 90, NoRect),
     OcrItem(<<"ok">>, 0, BoxB),
     OcrItem(<<>>, 90, BoxB)}

OcrItemLists ==
    {<<>>} \cup {<<a>> : a \in OcrItems} \cup {<<a, b>> : a \in OcrItems, b \in OcrItems}

\* ocr_keyword_min_score lies in 0..1: the least value and the default
MinScores == {0, ocr_keyword_min_score}

ExceptionKeywordLists == {<<>>, << <<"err">>, <<"mail">> >>}
ClickableKeywordLists == {<<>>, << <<"ok">> >>}

\* screens: the lists of items the screen may show during the call
OcrFrame(expected_scene, scene_checkers, exception_keywords, clickable_keywords, min_score, screens) ==
    [fn |-> "ocr_exception_flow", pc |-> "start", ret |-> None,
     expected_scene |-> expected_scene, scene_checkers |-> scene_checkers,
     exception_keywords |-> exception_keywords,
     clickable_keywords |-> clickable_keywords, min_score |-> min_score,
     screens |-> screens,
     items |-> <<>>, pending |-> <<>>]

OcrNoKeywords ==
    /\ Running("ocr_exception_flow", "start")
    /\ Top.exception_keywords = <<>>
    /\ ReturnValue(None)
    /\ UNCHANGED <<clickVars, pure, clock, steps>>

\* ocr_window_items raises
OcrItemsRaised ==
    /\ Running("ocr_exception_flow", "start")
    /\ Top.exception_keywords # <<>>
    /\ Raise(Err)
    /\ steps' = Append(steps, Step("ocr_window_items", <<>>, "exc", clock))
    /\ UNCHANGED <<clickVars, pure, clock>>

OcrNothingMatched ==
    /\ Running("ocr_exception_flow", "start")
    /\ Top.exception_keywords # <<>>
    /\ \E items \in Top.screens :
        /\ find_keyword_items(items, Top.exception_keywords,
                              Top.min_score) = <<>>
        /\ steps' = Append(steps, Step("ocr_window_items", items, "ok", clock))
    /\ ReturnValue(None)
    /\ UNCHANGED <<clickVars, pure, clock>>

\* the in-game scene is expected and the mailbox is on screen
OcrMailbox ==
    /\ Running("ocr_exception_flow", "start")
    /\ Top.exception_keywords # <<>>
    /\ Top.expected_scene = InGame
    /\ \E items \in Top.screens :
        LET matched == find_keyword_items(items, Top.exception_keywords,
                                          Top.min_score)
        IN /\ matched # <<>>
           /\ is_mailbox(matched)
           /\ steps' = Append(steps, Step("ocr_window_items", items, "ok", clock))
    /\ ReturnValue(InGame)
    /\ UNCHANGED <<clickVars, pure, clock>>

OcrMatched ==
    /\ Running("ocr_exception_flow", "start")
    /\ Top.exception_keywords # <<>>
    /\ \E items \in Top.screens :
        LET matched == find_keyword_items(items, Top.exception_keywords,
                                          Top.min_score)
        IN /\ matched # <<>>
           /\ ~(Top.expected_scene = InGame /\ is_mailbox(matched))
           /\ steps' = Append(steps, Step("ocr_window_items", items, "ok", clock))
           /\ Goto([Top EXCEPT !.pc = "select_window", !.items = items])
    /\ UNCHANGED <<clickVars, pure, clock, outcome>>

\* select_latest_active_window raises: the call is outside the try block
OcrWindowLookupRaised ==
    /\ Running("ocr_exception_flow", "select_window")
    /\ Raise(Err)
    /\ steps' = Append(steps, Step("select_window", <<>>, "exc", clock))
    /\ UNCHANGED <<clickVars, pure, clock>>

\* the window is activated when there is one (a raise is logged), and the
\* recovery actions are settled
OcrActivate ==
    /\ Running("ocr_exception_flow", "select_window")
    /\ \E found \in {"none", "ok", "exc"} :
        steps' = steps \o
            (IF found = "none"
             THEN <<Step("select_window", <<>>, "none", clock)>>
             ELSE <<Step("select_window", <<>>, "found", clock),
                    Step("activate_window", <<>>, found, clock)>>)
    /\ Goto([Top EXCEPT
                !.pc = "recover",
                !.pending = recovery_actions(Top.items, Top.clickable_keywords,
                                             Top.min_score)])
    /\ UNCHANGED <<clickVars, pure, clock, outcome>>

\* press_key or click_bbox_center raises
OcrActionRaised ==
    /\ Running("ocr_exception_flow", "recover")
    /\ Top.pending # <<>>
    /\ Raise(Err)
    /\ steps' = Append(steps, Step(Head(Top.pending).op, Head(Top.pending).arg,
                                   "exc", clock))
    /\ UNCHANGED <<clickVars, pure, clock>>

\* the next recovery action is performed, then one round of the template
\* scan looks for the scene
OcrAction ==
    /\ Running("ocr_exception_flow", "recover")
    /\ Top.pending # <<>>
    /\ steps' = Append(steps, Step(Head(Top.pending).op, Head(Top.pending).arg,
                                   "ok", clock))
    /\ Invoke([Top EXCEPT !.pc = "scanned", !.pending = Tail(@)],
              TemplateFrame(Top.expected_scene, Top.scene_checkers, 1))
    /\ UNCHANGED <<clickVars, pure, clock, outcome>>

OcrSceneFound ==
    /\ Running("ocr_exception_flow", "scanned")
    /\ Truthy(Top.ret)
    /\ ReturnValue(Top.ret)
    /\ UNCHANGED <<clickVars, pure, clock, steps>>

OcrSceneNotFound ==
    /\ Running("ocr_exception_flow", "scanned")
    /\ ~Truthy(Top.ret)
    /\ Goto([Top EXCEPT !.pc = "recover"])
    /\ UNCHANGED <<clickVars, pure, clock, steps, outcome>>

OcrGaveUp ==
    /\ Running("ocr_exception_flow", "recover")
    /\ Top.pending = <<>>
    /\ ReturnValue(None)
    /\ UNCHANGED <<clickVars, pure, clock, steps>>

OcrFlowNext ==
    \/ OcrNoKeywords
    \/ OcrItemsRaised
    \/ OcrNothingMatched
    \/ OcrMailbox
    \/ OcrMatched
    \/ OcrWindowLookupRaised
    \/ OcrActivate
    \/ OcrActionRaised
    \/ OcrAction
    \/ OcrSceneFound
    \/ OcrSceneNotFound
    \/ OcrGaveUp

(***************************************************************************)
(* Specification of one call of _ocr_exception_flow.                       *)
(***************************************************************************)
OcrCheckerLists == {<<>>, SceneNames}

OcrInit ==
    /\ ClickIdle
    /\ pure = IdlePure
    /\ \E expected_scene \in {SceneNames[i] : i \in 1..Len(SceneNames)},
          scene_checkers \in OcrCheckerLists,
          exception_keywords \in ExceptionKeywordLists,
          clickable_keywords \in ClickableKeywordLists,
          min_score \in MinScores :
        frames = <<OcrFrame(expected_scene, scene_checkers, exception_keywords,
                            clickable_keywords, min_score, OcrItemLists)>>
    /\ steps = <<>>
    /\ clock = 0
    /\ outcome = NoOutcome

OcrNext ==
    \/ OcrFlowNext
    \/ TemplateFlowNext
    \/ ScanNext

SpecOcr == OcrInit /\ [][OcrNext]_vars

(***************************************************************************)
(* Vocabulary of the OCR flow properties.                                  *)
(***************************************************************************)
OcrEntry == frames # <<>> /\ Entry.fn = "ocr_exception_flow"
OcrFinished == OcrEntry /\ outcome.kind # "none"

\* ocr_window_items came back with a list
ItemsRead ==
    /\ Len(steps) >= 1
    /\ steps[1].op = "ocr_window_items"
    /\ steps[1].res = "ok"

RecognisedItems == steps[1].arg
ExceptionMatches ==
    find_keyword_items(RecognisedItems, Entry.exception_keywords,
                       Entry.min_score)
ClickableMatches ==
    find_keyword_items(RecognisedItems, Entry.clickable_keywords,
                       Entry.min_score)

\* the text without its white space
RECURSIVE Squeeze(_)
Squeeze(text) ==
    IF text = <<>> THEN <<>>
    ELSE (IF Head(text) = Space THEN <<>> ELSE <<Head(text)>>) \o Squeeze(Tail(text))

\* some item matching the exception keywords shows a mailbox marker
MailboxShown ==
    \E i \in 1..Len(ExceptionMatches) :
        \/ Contains(Squeeze(ExceptionMatches[i].text), <<"send", "mail">>)
        \/ Contains(Squeeze(ExceptionMatches[i].text), <<"mail", "box">>)

(***************************************************************************)
(* C19.  In _ocr_exception_flow, when the expected scene is the in-game    *)
(* scene and at least one item matching the exception keywords contains a  *)
(* mailbox marker (after removing white space), the flow returns the       *)
(* in-game scene without clicking, pressing a key or activating the        *)
(* window: reading the screen is its only interaction.  When any other     *)
(* scene is expected the markers have no effect: every match of the        *)
(* exception keywords takes the flow on to the window lookup.              *)
(***************************************************************************)
C19_MailboxIsInGame ==
    (OcrFinished /\ ItemsRead) =>
        /\ (Entry.expected_scene = InGame /\ MailboxShown) =>
               /\ outcome = [kind |-> "returned", value |-> InGame]
               /\ Len(steps) = 1
        /\ (Entry.expected_scene # InGame /\ ExceptionMatches # <<>>) =>
               /\ Len(steps) >= 2
               /\ steps[2].op = "select_window"

\* the marker is recognised with a space inside
C19_Witness ==
    /\ OcrFinished
    /\ ItemsRead
    /\ Entry.expected_scene = InGame
    /\ RecognisedItems = <<OcrItem(<<"send", Space, "mail">>, 90, NoRect)>>
    /\ outcome = [kind |-> "returned", value |-> InGame]
    /\ Len(steps) = 1

(***************************************************************************)
(* C20.  No execution of _ocr_exception_flow presses a key: press_key is   *)
(* never called, whatever the recognised items, the keywords and the       *)
(* expected scene; when exception keywords match but no clickable keyword  *)
(* item exists the flow returns None.                                      *)
(*                                                                         *)
(* As stated (C20_NoKeyPressNoneWithoutClickable) the second half fails    *)
(* when the mailbox rule of C19 applies: the flow then returns the in-game *)
(* scene although nothing is clickable.  What holds                        *)
(* (C20_NoKeyPressNoneUnlessMailbox) is the claim with that case set       *)
(* apart.                                                                  *)
(***************************************************************************)
NoKeyPress == \A i \in StepIdx : steps[i].op # "press_key"

NothingClickable ==
    /\ Returned("ocr_exception_flow")
    /\ ItemsRead
    /\ ExceptionMatches # <<>>
    /\ ClickableMatches = <<>>

C20_NoKeyPressNoneWithoutClickable ==
    OcrEntry =>
        /\ NoKeyPress
        /\ NothingClickable => outcome.value = None

C20_NoKeyPressNoneUnlessMailbox ==
    OcrEntry =>
        /\ NoKeyPress
        /\ (NothingClickable /\ ~(Entry.expected_scene = InGame /\ MailboxShown)) =>
               outcome.value = None
        /\ (NothingClickable /\ Entry.expected_scene = InGame /\ MailboxShown) =>
               outcome.value = InGame

\* the shape of the test: an error text, no clickable keywords, no window
C20_Witness ==
    /\ Returned("ocr_exception_flow")
    /\ ItemsRead
    /\ Entry.expected_scene = "character_select"
    /\ Entry.clickable_keywords = <<>>
    /\ RecognisedItems = <<OcrItem(<<"err">>, 90, NoRect)>>
    /\ Len(steps) = 2
    /\ steps[2].op = "select_window"
    /\ steps[2].res = "none"
    /\ outcome.value = None

(***************************************************************************)
(* Waiting for a scene (src/src/runner.py): _wait_template_with_resolver   *)
(* and _wait_in_game_ready, which differ in what they match and in where   *)
(* their poll interval and exception delay come from.                      *)
(*                                                                         *)
(* The clock counts half seconds, the poll interval of                     *)
(* _wait_in_game_ready.  Time passes while the screen is matched (by up to *)
(* MaxLag) and while the loop sleeps (by the poll interval); the recovery  *)
(* passes are taken to last no time, so that the time `now' read by an     *)
(* iteration is also the time at which its passes run.  The clock starts   *)
(* at Epoch, far from 0 as time.time() is: the first comparison with the   *)
(* initial last_exception_check = 0.0 and last_ocr_time = 0.0 always       *)
(* passes.  When a pass returns to the wait, the steps it made are dropped *)
(* from `steps' and only its result is kept.                               *)
(***************************************************************************)
MaxTimeout == 2         \* timeout_seconds ranges over 0..MaxTimeout
MaxLag == 1             \* matching the screen takes 0..MaxLag half seconds
MaxWaitRounds == 1      \* template_exception_rounds ranges over 1..MaxWaitRounds
UnitsPerSecond == 2
Epoch == 100

Seconds(s) == s * UnitsPerSecond

\* SceneWaitResult(scene, scene == expected_scene)
scene_wait_result_always_expected(scene, expected_scene) ==
    [scene |-> scene, is_expected |-> TRUE]

scene_wait_result(scene, expected_scene) ==
    [scene |-> scene, is_expected |-> scene = expected_scene]

\* the throttle of the template scan forgets the floor of one second
template_scan_due_no_floor(now, last_exception_check, poll_interval) ==
    now - last_exception_check >= poll_interval

\* now - last_exception_check >= max(1.0, poll_interval)
template_scan_due(now, last_exception_check, poll_interval) ==
    now - last_exception_check >= Max(Seconds(1), poll_interval)

\* ocr_interval_seconds > 0 and now - last_ocr_time >= ocr_interval_seconds
ocr_scan_due(now, last_ocr_time, ocr_interval) ==
    ocr_interval > 0 /\ now - last_ocr_time >= ocr_interval

\* scene_checkers and now - start_time >= exception_delay_seconds
passes_allowed(frame) ==
    /\ frame.scene_checkers # <<>>
    /\ frame.now - frame.start_time >= frame.exception_delay

\* kind: "template" for _wait_template_with_resolver, "in_game" for
\* _wait_in_game_ready; times are in half seconds
WaitFrame(kind, expected_scene, timeout, poll_interval, exception_delay, scene_checkers, ocr_interval, exception_keywords, rounds) ==
    [fn |-> "wait_scene", pc |-> "start", ret |-> None, kind |-> kind,
     expected_scene |-> expected_scene, timeout |-> timeout,
     poll_interval |-> poll_interval, exception_delay |-> exception_delay,
     scene_checkers |-> scene_checkers, ocr_interval |-> ocr_interval,
     exception_keywords |-> exception_keywords, rounds |-> rounds,
     deadline |-> 0, start_time |-> 0, now |-> 0,
     last_exception_check |-> 0, last_ocr_time |-> 0, mark |-> 0]

WaitClickableKeywords == << <<"ok">> >>
WaitScreens ==
    {<<>>,
     <<OcrItem(<<"mail", "box">>, NoScore, BoxA)>>,
     <<OcrItem(<<"err", "ok">>, 90, BoxA)>>}
WaitCheckerLists == {<<>>, <<"character_select", "in_game">>}

WaitInit ==
    /\ ClickIdle
    /\ pure = IdlePure
    /\ \E timeout_seconds \in 0..MaxTimeout, delay_seconds \in {0, 1},
          ocr_interval_seconds \in {0, 1},
          scene_checkers \in WaitCheckerLists,
          exception_keywords \in ExceptionKeywordLists,
          rounds \in 1..MaxWaitRounds :
        \/ \E expected_scene \in {"channel_select", "character_select"},
              poll_interval \in {0, 2, 3} :
               frames = <<WaitFrame("template", expected_scene,
                                    Seconds(timeout_seconds), poll_interval,
                                    Seconds(delay_seconds), scene_checkers,
                                    Seconds(ocr_interval_seconds),
                                    exception_keywords, rounds)>>
        \/ frames = <<WaitFrame("in_game", InGame, Seconds(timeout_seconds), 1,
                                Seconds(delay_seconds), scene_checkers,
                                Seconds(ocr_interval_seconds),
                                exception_keywords, rounds)>>
    /\ steps = <<>>
    /\ clock = Epoch
    /\ outcome = NoOutcome

\* timeout_seconds <= 0 or poll_interval <= 0: ValueError
WaitBadArguments ==
    /\ Running("wait_scene", "start")
    /\ Top.timeout <= 0 \/ Top.poll_interval <= 0
    /\ Raise("ValueError")
    /\ UNCHANGED <<clickVars, pure, clock, steps>>

WaitStart ==
    /\ Running("wait_scene", "start")
    /\ Top.timeout > 0
    /\ Top.poll_interval > 0
    /\ Goto([Top EXCEPT !.pc = "loop", !.deadline = clock + Top.timeout,
                        !.start_time = clock])
    /\ UNCHANGED <<clickVars, pure, clock, steps, outcome>>

\* the loop ends at the deadline
WaitTimedOut ==
    /\ Running("wait_scene", "loop")
    /\ ~(clock < Top.deadline)
    /\ ReturnValue([scene |-> None, is_expected |-> FALSE])
    /\ UNCHANGED <<clickVars, pure, clock, steps>>

\* the visibility check, the anchor resolver or the matcher raises
WaitMatchRaised ==
    /\ Running("wait_scene", "loop")
    /\ clock < Top.deadline
    /\ Raise(Err)
    /\ steps' = Append(steps, Step("match_template", <<>>, "exc", clock))
    /\ UNCHANGED <<clickVars, pure, clock>>

\* what the matcher may answer: one template, or the name and the title
MatchResults(kind) ==
    IF kind = "in_game" THEN BOOLEAN \X BOOLEAN ELSE {<<TRUE>>, <<FALSE>>}

\* the screen is matched, which takes lag, and the time is read
WaitMatched ==
    /\ Running("wait_scene", "loop")
    /\ clock < Top.deadline
    /\ \E lag \in 0..MaxLag, results \in MatchResults(Top.kind) :
        /\ \A i \in 1..Len(results) : results[i]
        /\ clock' = clock + lag
        /\ steps' = Append(steps, Step("match_template", <<>>, "found", clock'))
    /\ ReturnValue([scene |-> Top.expected_scene, is_expected |-> TRUE])
    /\ UNCHANGED <<clickVars, pure>>

WaitNotMatched ==
    /\ Running("wait_scene", "loop")
    /\ clock < Top.deadline
    /\ \E lag \in 0..MaxLag, results \in MatchResults(Top.kind) :
        /\ \E i \in 1..Len(results) : ~results[i]
        /\ clock' = clock + lag
        /\ steps' = Append(steps, Step("match_template", <<>>, "not_found", clock'))
        /\ Goto([Top EXCEPT !.pc = "passes", !.now = clock'])
    /\ UNCHANGED <<clickVars, pure, outcome>>

\* time.sleep(poll_interval), then the next iteration
sleep_then_loop(frame) == [frame EXCEPT !.pc = "loop"]

\* the steps of a finished pass are replaced by its result
pass_result(scene) ==
    [SubSeq(steps, 1, Top.mark) EXCEPT ![Top.mark].res = scene]

\* no checkers, or the exception delay has not elapsed: no pass
WaitNoPasses ==
    /\ Running("wait_scene", "passes")
    /\ ~passes_allowed(Top)
    /\ Goto(sleep_then_loop(Top))
    /\ clock' = clock + Top.poll_interval
    /\ UNCHANGED <<clickVars, pure, steps, outcome>>

WaitTemplateScan ==
    /\ Running("wait_scene", "passes")
    /\ passes_allowed(Top)
    /\ template_scan_due(Top.now, Top.last_exception_check, Top.poll_interval)
    /\ steps' = Append(steps, Step("template_scan", <<>>, "started", Top.now))
    /\ Invoke([Top EXCEPT !.pc = "template_scanned",
                          !.last_exception_check = Top.now,
                          !.mark = Len(steps) + 1],
              TemplateFrame(Top.expected_scene, Top.scene_checkers,
                            Top.rounds))
    /\ UNCHANGED <<clickVars, pure, clock, outcome>>

WaitTemplateScanThrottled ==
    /\ Running("wait_scene", "passes")
    /\ passes_allowed(Top)
    /\ ~template_scan_due(Top.now, Top.last_exception_check, Top.poll_interval)
    /\ Goto([Top EXCEPT !.pc = "ocr"])
    /\ UNCHANGED <<clickVars, pure, clock, steps, outcome>>

WaitTemplateScanFound ==
    /\ Running("wait_scene", "template_scanned")
    /\ Truthy(Top.ret)
    /\ steps' = pass_result(Top.ret)
    /\ ReturnValue(scene_wait_result(Top.ret, Top.expected_scene))
    /\ UNCHANGED <<clickVars, pure, clock>>

WaitTemplateScanNothing ==
    /\ Running("wait_scene", "template_scanned")
    /\ ~Truthy(Top.ret)
    /\ steps' = pass_result(Top.ret)
    /\ Goto([Top EXCEPT !.pc = "ocr"])
    /\ UNCHANGED <<clickVars, pure, clock, outcome>>

WaitOcrScan ==
    /\ Running("wait_scene", "ocr")
    /\ ocr_scan_due(Top.now, Top.last_ocr_time, Top.ocr_interval)
    /\ steps' = Append(steps, Step("ocr_scan", <<>>, "started", Top.now))
    /\ Invoke([Top EXCEPT !.pc = "ocr_scanned", !.last_ocr_time = Top.now,
                          !.mark = Len(steps) + 1],
              OcrFrame(Top.expected_scene, Top.scene_checkers,
                       Top.exception_keywords, WaitClickableKeywords,
                       ocr_keyword_min_score, WaitScreens))
    /\ UNCHANGED <<clickVars, pure, clock, outcome>>

WaitOcrScanSkipped ==
    /\ Running("wait_scene", "ocr")
    /\ ~ocr_scan_due(Top.now, Top.last_ocr_time, Top.ocr_interval)
    /\ Goto(sleep_then_loop(Top))
    /\ clock' = clock + Top.poll_interval
    /\ UNCHANGED <<clickVars, pure, steps, outcome>>

WaitOcrScanFound ==
    /\ Running("wait_scene", "ocr_scanned")
    /\ Truthy(Top.ret)
    /\ steps' = pass_result(Top.ret)
    /\ ReturnValue(scene_wait_result(Top.ret, Top.expected_scene))
    /\ UNCHANGED <<clickVars, pure, clock>>

WaitOcrScanNothing ==
    /\ Running("wait_scene", "ocr_scanned")
    /\ ~Truthy(Top.ret)
    /\ steps' = pass_result(Top.ret)
    /\ Goto(sleep_then_loop(Top))
    /\ clock' = clock + Top.poll_interval
    /\ UNCHANGED <<clickVars, pure, outcome>>

WaitLoopNext ==
    \/ WaitBadArguments
    \/ WaitStart
    \/ WaitTimedOut
    \/ WaitMatchRaised
    \/ WaitMatched
    \/ WaitNotMatched
    \/ WaitNoPasses
    \/ WaitTemplateScan
    \/ WaitTemplateScanThrottled
    \/ WaitTemplateScanFound
    \/ WaitTemplateScanNothing
    \/ WaitOcrScan
    \/ WaitOcrScanSkipped
    \/ WaitOcrScanFound
    \/ WaitOcrScanNothing

WaitNext ==
    \/ WaitLoopNext
    \/ OcrFlowNext
    \/ TemplateFlowRounds
    \/ ScanNext

SpecWait == WaitInit /\ [][WaitNext]_vars

(***************************************************************************)
(* Vocabulary of the wait properties.                                      *)
(***************************************************************************)
WaitEntry == frames # <<>> /\ Entry.fn = "wait_scene"
WaitOps == {"match_template", "template_scan", "ocr_scan"}
Scans(op) == {i \in StepIdx : steps[i].op = op}

\* the step of the wait itself that comes before step i
PreviousWaitStep(i) ==
    LET before == {k \in 1..(i - 1) : steps[k].op \in WaitOps}
    IN CHOOSE k \in before : \A l \in before : l <= k

(***************************************************************************)
(* C17.  Every value _wait_template_with_resolver returns is a             *)
(* SceneWaitResult (scene, is_expected) in which is_expected is true iff   *)
(* scene equals the expected scene; scene is None only when the timeout    *)
(* elapsed with neither the expected template matching nor any recovery    *)
(* pass yielding a scene; a timeout is reported by this return value and   *)
(* never by raising: the wait raises only for arguments it refuses or when *)
(* one of the routines it calls raises.                                    *)
(***************************************************************************)
C17_WaitResultTellsExpected ==
    WaitEntry =>
        /\ outcome.kind = "returned" =>
               /\ DOMAIN outcome.value = {"scene", "is_expected"}
               /\ outcome.value.is_expected <=>
                      outcome.value.scene = Entry.expected_scene
               /\ outcome.value.scene = None =>
                      /\ clock >= Entry.deadline
                      /\ \A i \in Scans("match_template") : steps[i].res = "not_found"
                      /\ \A i \in Scans("template_scan") \cup Scans("ocr_scan") :
                             steps[i].res = None
        /\ outcome.kind = "raised" =>
               \/ Entry.timeout <= 0
               \/ Entry.poll_interval <= 0
               \/ LastStep.res = "exc"

\* the wait times out after both passes have run and found nothing
C17_Witness ==
    /\ WaitEntry
    /\ Entry.kind = "template"
    /\ outcome = [kind |-> "returned",
                  value |-> [scene |-> None, is_expected |-> FALSE]]
    /\ Scans("template_scan") # {}
    /\ Scans("ocr_scan") # {}

(***************************************************************************)
(* C18.  During one scene wait, neither the template scan nor the OCR scan *)
(* runs before exception_delay seconds have passed since the wait began;   *)
(* any two template scans are at least max(1, poll_interval) seconds       *)
(* apart and any two OCR scans at least ocr_interval_seconds apart, the    *)
(* OCR scan never running when ocr_interval_seconds is 0; in every poll    *)
(* iteration the expected template is checked first, then the template     *)
(* scan, then the OCR scan.  A scan's time is the time `now' read by its   *)
(* iteration, which is what the code compares.                             *)
(***************************************************************************)
C18_PassesAreDelayedAndThrottled ==
    WaitEntry =>
        /\ \A i \in Scans("template_scan") \cup Scans("ocr_scan") :
               /\ steps[i].now - Entry.start_time >= Entry.exception_delay
               /\ \E k \in 1..(i - 1) : steps[k].op = "match_template"
               /\ steps[PreviousWaitStep(i)].now = steps[i].now
               /\ steps[i].op = "template_scan" =>
                      steps[PreviousWaitStep(i)].op = "match_template"
               /\ steps[i].op = "ocr_scan" =>
                      steps[PreviousWaitStep(i)].op # "ocr_scan"
        /\ \A i, j \in Scans("template_scan") :
               i < j => steps[j].now - steps[i].now >=
                            IF Entry.poll_interval > UnitsPerSecond
                            THEN Entry.poll_interval ELSE UnitsPerSecond
        /\ \A i, j \in Scans("ocr_scan") :
               i < j => steps[j].now - steps[i].now >= Entry.ocr_interval
        /\ Entry.ocr_interval = 0 => Scans("ocr_scan") = {}

\* polling every half second with a delay of one second: both passes run
\* twice, one second apart
C18_Witness ==
    /\ WaitEntry
    /\ Entry.kind = "in_game"
    /\ Entry.exception_delay = UnitsPerSecond
    /\ Entry.ocr_interval = UnitsPerSecond
    /\ Cardinality(Scans("template_scan")) = 2
    /\ Cardinality(Scans("ocr_scan")) = 2
    /\ \A i \in Scans("template_scan") \cup Scans("ocr_scan") :
           steps[i].now \in {Entry.start_time + 2, Entry.start_time + 4}

(***************************************************************************)
(* Vocabulary of the click of the OCR flow.                                *)
(***************************************************************************)
BoxClicks == {i \in StepIdx : steps[i].op = "click_bbox_center"}

\* the confidence of an item: its score, an item without a score counting
\* as 1.0
Confidence(item) == IF item.score = NoScore THEN 100 ELSE item.score

\* the flow went past the mailbox rule
PastMailbox ==
    /\ OcrEntry
    /\ ItemsRead
    /\ ExceptionMatches # <<>>
    /\ ~(Entry.expected_scene = InGame /\ MailboxShown)

\* the click at step c is on the bounding box of a clickable item that no
\* clickable item exceeds in confidence
ClickOnBest(c) ==
    \E k \in 1..Len(ClickableMatches) :
        /\ ClickableMatches[k].bbox # NoRect
        /\ ClickableMatches[k].bbox = steps[c].arg
        /\ \A j \in 1..Len(ClickableMatches) :
               Confidence(ClickableMatches[j]) <= Confidence(ClickableMatches[k])

\* the steps after step c are one round of the template scan, and the flow
\* returns what the round found
OneRoundAfter(c) ==
    LET m == Len(steps) - c
        all == IF Entry.scene_checkers = <<>> THEN 0 ELSE RoundLength
    IN /\ m <= all
       /\ \A j \in 1..m : /\ steps[c + j].op = "check"
                          /\ steps[c + j].arg = ScheduledIndex(j)
       /\ \A j \in 1..(m - 1) : steps[c + j].res # "true"
       /\ IF m > 0 /\ steps[c + m].res = "true"
          THEN outcome.value = Entry.scene_checkers[steps[c + m].arg + 1]
          ELSE outcome.value = None /\ m = all

\* at most one click, on a bounding box, followed by one round
ClickThenOneRound ==
    PastMailbox =>
        /\ Cardinality(BoxClicks) <= 1
        /\ \A c \in BoxClicks : steps[c].arg # NoRect
        /\ Returned("ocr_exception_flow") =>
               /\ BoxClicks = {} => (Checks = {} /\ outcome.value = None)
               /\ \A c \in BoxClicks : OneRoundAfter(c)

(***************************************************************************)
(* C21.  In _ocr_exception_flow, when exception keywords match and the     *)
(* mailbox case does not apply: among the recognised items that match the  *)
(* clickable keywords with confidence >= ocr_keyword_min_score (an item    *)
(* without a score counting as 1.0), the item clicked is one with the      *)
(* highest confidence, the click is on its bounding box, at most one click *)
(* is made, and afterwards the template scan is run exactly once with one  *)
(* round and its result returned; an item without a bounding box is never  *)
(* clicked.                                                                *)
(*                                                                         *)
(* The code sorts by `item.score or 1.0', which ranks a score of 0.0 as    *)
(* 1.0: with ocr_keyword_min_score = 0 an item of confidence 0 is clicked  *)
(* in preference to every scored item.  C21_ClickOnBestUnlessZero is what  *)
(* the code does.                                                          *)
(***************************************************************************)
C21_ClicksHighestConfidence ==
    /\ ClickThenOneRound
    /\ PastMailbox => \A c \in BoxClicks : ClickOnBest(c)

C21_ClickOnBestUnlessZero ==
    /\ ClickThenOneRound
    /\ PastMailbox =>
           \A c \in BoxClicks :
               \/ ClickOnBest(c)
               \/ \E k \in 1..Len(ClickableMatches) :
                      /\ ClickableMatches[k].score = 0
                      /\ ClickableMatches[k].bbox = steps[c].arg

\* a best item at 0.9 and an item at 0.0: the click goes to the latter
C21_ZeroScoreClicked ==
    /\ PastMailbox
    /\ Entry.min_score = 0
    /\ RecognisedItems = <<OcrItem(<<"err", "ok">>, 90, BoxA),
                           OcrItem(<<"ok">>, 0, BoxB)>>
    /\ \E c \in BoxClicks : steps[c].arg = BoxB /\ steps[c].res = "ok"

(***************************************************************************)
(* Specification of one call of find_keyword_items (src/src/ocr_ops.py).   *)
(* "Ok" and "ok" are two symbols: a keyword matches a text only in the     *)
(* case it is written in.  The empty keyword is the empty sequence.        *)
(***************************************************************************)
KeywordTexts == {<<>>, <<"ok">>, <<"Ok">>, <<"err", "ok">>}
KeywordScores == {NoScore, 0, 40, 80}
KeywordItems == {OcrItem(t, s, NoRect) : t \in KeywordTexts, s \in KeywordScores}
KeywordItemLists ==
    {<<>>} \cup {<<a>> : a \in KeywordItems}
           \cup {<<a, b>> : a \in KeywordItems, b \in KeywordItems}
           \cup {<<OcrItem(<<"ok">>, 40, NoRect), OcrItem(<<"ok">>, 80, NoRect), c>> :
                     c \in KeywordItems}
KeywordLists == {<<>>, << <<"ok">> >>, << <<"err">>, <<"Ok">> >>, << <<>> >>}
KeywordMinScores == {0, ocr_keyword_min_score, 100}

FindKeywordInit ==
    /\ ClickIdle
    /\ CallIdle
    /\ \E items \in KeywordItemLists, keywords \in KeywordLists,
          min_score \in KeywordMinScores :
        pure = [fn |-> "find_keyword_items", items |-> items,
                keywords |-> keywords, min_score |-> min_score,
                done |-> FALSE, ret |-> <<>>]

CallFindKeywordItems ==
    /\ pure.fn = "find_keyword_items"
    /\ ~pure.done
    /\ pure' = [pure EXCEPT !.done = TRUE,
                            !.ret = find_keyword_items(pure.items, pure.keywords,
                                                       pure.min_score)]
    /\ UNCHANGED <<clickVars, callVars>>

SpecFindKeyword == FindKeywordInit /\ [][CallFindKeywordItems]_vars

\* the item at position i is to be kept
Kept(i) ==
    LET item == pure.items[i]
    IN /\ item.text # <<>>
       /\ \E k \in 1..Len(pure.keywords) : Contains(item.text, pure.keywords[k])
       /\ item.score = NoScore \/ item.score >= pure.min_score

\* positions of the kept items
KeptPositions == {i \in 1..Len(pure.items) : Kept(i)}

(***************************************************************************)
(* C22.  find_keyword_items returns, in input order, exactly those items   *)
(* whose text is non-empty, contains at least one keyword as a             *)
(* case-sensitive substring, and whose score is >= min_score, an absent    *)
(* score being treated as 1.0 (so an unscored item is never removed by the *)
(* threshold for any min_score <= 1); it returns the empty list when the   *)
(* item list or the keyword list is empty.                                 *)
(***************************************************************************)
C22_FindKeywordItemsFilters ==
    (pure.fn = "find_keyword_items" /\ pure.done) =>
        /\ Len(pure.ret) = Cardinality(KeptPositions)
        /\ \A j \in 1..Len(pure.ret) :
               \E i \in KeptPositions :
                   /\ Cardinality({h \in KeptPositions : h <= i}) = j
                   /\ pure.ret[j] = pure.items[i]
        /\ (pure.items = <<>> \/ pure.keywords = <<>>) => pure.ret = <<>>

\* the test: of two items reading the keyword, the one below the threshold
\* is dropped, as is the item that reads something else
C22_Witness ==
    /\ pure.fn = "find_keyword_items"
    /\ pure.done
    /\ pure.items = <<OcrItem(<<"ok">>, 40, NoRect), OcrItem(<<"ok">>, 80, NoRect),
                      OcrItem(<<"Ok">>, NoScore, NoRect)>>
    /\ pure.keywords = << <<"ok">> >>
    /\ pure.min_score = ocr_keyword_min_score
    /\ pure.ret = <<OcrItem(<<"ok">>, 80, NoRect)>>

(***************************************************************************)
(* FlowRunner._execute_step (src/auto_login/src/flow.py): one step of the  *)
(* login flow, retried under its StepPolicy.  The action answers true or   *)
(* false or raises; an exception is saved as evidence; after the last      *)
(* failed attempt the reason is recorded.  Writing evidence may itself     *)
(* fail, which nothing in the routine catches.                             *)
(***************************************************************************)
MaxClickRetry == 2      \* click_retry ranges over 0..MaxClickRetry

\* retries of the steps, as _build_policies sets them
build_policies(click_retry) ==
    [launch |-> 1, web_login |-> 2, click_channel |-> click_retry]

\* the retries alone
attempts_allowed_without_first(retry) == retry

\* range(1, policy.retry + 2) has retry + 1 values
attempts_allowed(retry) == retry + 1

ActionResults == {"true", "false", "exc"}

ExecFrame(step_name, retry) ==
    [fn |-> "execute_step", pc |-> "attempt", ret |-> None,
     step_name |-> step_name, retry |-> retry, attempt |-> 1]

ExecInit ==
    /\ ClickIdle
    /\ pure = IdlePure
    /\ \E click_retry \in 0..MaxClickRetry,
          step_name \in {"launch", "web_login", "click_channel"} :
        frames = <<ExecFrame(step_name, build_policies(click_retry)[step_name])>>
    /\ steps = <<>>
    /\ clock = 0
    /\ outcome = NoOutcome

\* action() is true: the step succeeded
ExecActionTrue ==
    /\ Running("execute_step", "attempt")
    /\ Top.attempt <= attempts_allowed(Top.retry)
    /\ steps' = Append(steps, Step("action", Top.attempt, "true", clock))
    /\ ReturnValue(TRUE)
    /\ UNCHANGED <<clickVars, pure, clock>>

\* action() is false: the attempt failed, on to the next
ExecActionFalse ==
    /\ Running("execute_step", "attempt")
    /\ Top.attempt <= attempts_allowed(Top.retry)
    /\ steps' = Append(steps, Step("action", Top.attempt, "false", clock))
    /\ Goto([Top EXCEPT !.attempt = @ + 1])
    /\ UNCHANGED <<clickVars, pure, clock, outcome>>

\* action() raises: the exception is caught
ExecActionRaised ==
    /\ Running("execute_step", "attempt")
    /\ Top.attempt <= attempts_allowed(Top.retry)
    /\ steps' = Append(steps, Step("action", Top.attempt, "exc", clock))
    /\ Goto([Top EXCEPT !.pc = "save_exception"])
    /\ UNCHANGED <<clickVars, pure, clock, outcome>>

\* evidence.save_exception, then the next attempt
ExecSaveException ==
    /\ Running("execute_step", "save_exception")
    /\ steps' = Append(steps, Step("save_exception", Top.attempt, "ok", clock))
    /\ Goto([Top EXCEPT !.pc = "attempt", !.attempt = @ + 1])
    /\ UNCHANGED <<clickVars, pure, clock, outcome>>

\* the trace cannot be written
ExecSaveExceptionRaised ==
    /\ Running("execute_step", "save_exception")
    /\ steps' = Append(steps, Step("save_exception", Top.attempt, "exc", clock))
    /\ Raise(Err)
    /\ UNCHANGED <<clickVars, pure, clock>>

\* the loop is over: _record_failure, return False
ExecRecordFailure ==
    /\ Running("execute_step", "attempt")
    /\ Top.attempt > attempts_allowed(Top.retry)
    /\ steps' = Append(steps, Step("record_failure", "reason.txt", "ok", clock))
    /\ ReturnValue(FALSE)
    /\ UNCHANGED <<clickVars, pure, clock>>

\* the reason cannot be written
ExecRecordFailureRaised ==
    /\ Running("execute_step", "attempt")
    /\ Top.attempt > attempts_allowed(Top.retry)
    /\ steps' = Append(steps, Step("record_failure", "reason.txt", "exc", clock))
    /\ Raise(Err)
    /\ UNCHANGED <<clickVars, pure, clock>>

ExecNext ==
    \/ ExecActionTrue
    \/ ExecActionFalse
    \/ ExecActionRaised
    \/ ExecSaveException
    \/ ExecSaveExceptionRaised
    \/ ExecRecordFailure
    \/ ExecRecordFailureRaised

SpecExec == ExecInit /\ [][ExecNext]_vars

(***************************************************************************)
(* Vocabulary of the step properties.                                      *)
(***************************************************************************)
ExecEntry == frames # <<>> /\ Entry.fn = "execute_step"
Invocations == {i \in StepIdx : steps[i].op = "action"}
FailedInvocations == {i \in Invocations : steps[i].res # "true"}
FailureRecords == {i \in StepIdx : steps[i].op = "record_failure"}

(***************************************************************************)
(* C23.  FlowRunner._execute_step under a StepPolicy with retry = R        *)
(* invokes the step action at most R+1 times, stops and returns True at    *)
(* the first invocation that returns true, treats an exception raised by   *)
(* the action as a failed attempt (the exception is saved as evidence and  *)
(* is not propagated), and returns False, recording the failure reason     *)
(* exactly once, only after exactly R+1 failed invocations.  The only      *)
(* exceptions that leave the routine come from writing the evidence.       *)
(***************************************************************************)
C23_StepRetriedUpToRetryPlusOne ==
    ExecEntry =>
        /\ Cardinality(Invocations) <= Entry.retry + 1
        /\ \A i \in Invocations :
               /\ steps[i].res = "true" =>
                      /\ i = Len(steps)
                      /\ outcome = [kind |-> "returned", value |-> TRUE]
               /\ (steps[i].res = "exc" /\ i < Len(steps)) =>
                      /\ steps[i + 1].op = "save_exception"
                      /\ steps[i + 1].arg = steps[i].arg
        /\ outcome.kind = "raised" =>
               /\ LastStep.op \in {"save_exception", "record_failure"}
               /\ LastStep.res = "exc"
        /\ outcome.kind = "returned" =>
               IF outcome.value
               THEN /\ LastStep.op = "action"
                    /\ LastStep.res = "true"
                    /\ FailureRecords = {}
               ELSE /\ Cardinality(FailedInvocations) = Entry.retry + 1
                    /\ Cardinality(Invocations) = Entry.retry + 1
                    /\ Cardinality(FailureRecords) = 1
        /\ outcome.kind = "none" => FailureRecords = {}

\* web_login, retry 2: a false answer, an exception that is saved, a false
\* answer, and the reason is recorded
C23_Witness ==
    /\ ExecEntry
    /\ Entry.retry = 2
    /\ outcome = [kind |-> "returned", value |-> FALSE]
    /\ Len(steps) = 5
    /\ steps[1].res = "false"
    /\ steps[2].res = "exc"
    /\ steps[3].op = "save_exception"
    /\ steps[4].res = "false"
    /\ steps[5].op = "record_failure"

(***************************************************************************)
(* _handle_step_failure (src/src/runner.py) and save_ui_evidence           *)
(* (src/src/evidence.py).  The bundle is a directory holding context.json  *)
(* and error.txt and, when they could be taken, screenshot.png and         *)
(* ocr.txt; a failed screenshot or OCR is logged and the bundle is written *)
(* without it, while a failure to create the directory or to write a text  *)
(* file raises.                                                            *)
(***************************************************************************)
GameTitle == "game"
ErrorPolicies == {"restart", "manual"}
FailureReasons == {"template_timeout", "click_failed", ""}
FailureStages == {"channel", "role"}
WindowTitles == {None, "", "launcher"}

\* window_title or config.launcher.game_window_title_keyword
target_title(window_title) ==
    IF window_title = None \/ window_title = "" THEN GameTitle ELSE window_title

\* the files of a bundle that save_ui_evidence managed to write
evidence_files(screenshot_taken, ocr_text_read) ==
    {"context.json", "error.txt"}
        \cup (IF screenshot_taken THEN {"screenshot.png"} ELSE {})
        \cup (IF ocr_text_read THEN {"ocr.txt"} ELSE {})

\* every failure is reported as a plain RuntimeError
failure_signal_always_runtime(error_policy) == "RuntimeError"

\* the exception _handle_step_failure ends with
failure_signal(error_policy) ==
    IF error_policy = "manual" THEN "ManualInterventionRequired" ELSE "RuntimeError"

Exception(type, reason) == [type |-> type, reason |-> reason]

HandleFrame(error_policy, stage, reason, window_title) ==
    [fn |-> "handle_step_failure", pc |-> "save", ret |-> None,
     error_policy |-> error_policy, stage |-> stage, reason |-> reason,
     window_title |-> window_title]

HandleInit ==
    /\ ClickIdle
    /\ pure = IdlePure
    /\ \E error_policy \in ErrorPolicies, stage \in FailureStages,
          reason \in FailureReasons, window_title \in WindowTitles :
        frames = <<HandleFrame(error_policy, stage, reason, window_title)>>
    /\ steps = <<>>
    /\ clock = 0
    /\ outcome = NoOutcome

\* save_ui_evidence writes the bundle
HandleEvidenceSaved ==
    /\ Running("handle_step_failure", "save")
    /\ \E screenshot_taken \in BOOLEAN, ocr_text_read \in BOOLEAN :
        steps' = Append(steps,
                    Step("save_ui_evidence",
                         [tag |-> "ui_failure",
                          window_title |-> target_title(Top.window_title),
                          stage |-> Top.stage, reason |-> Top.reason,
                          files |-> evidence_files(screenshot_taken, ocr_text_read)],
                         "ok", clock))
    /\ Goto([Top EXCEPT !.pc = "raise"])
    /\ UNCHANGED <<clickVars, pure, clock, outcome>>

\* the directory or one of the text files cannot be written
HandleEvidenceRaised ==
    /\ Running("handle_step_failure", "save")
    /\ steps' = Append(steps,
                    Step("save_ui_evidence",
                         [tag |-> "ui_failure",
                          window_title |-> target_title(Top.window_title),
                          stage |-> Top.stage, reason |-> Top.reason,
                          files |-> {}],
                         "exc", clock))
    /\ Raise(Exception("OSError", Err))
    /\ UNCHANGED <<clickVars, pure, clock>>

\* raise ManualInterventionRequired(reason) or RuntimeError(reason)
HandleRaise ==
    /\ Running("handle_step_failure", "raise")
    /\ Raise(Exception(failure_signal(Top.error_policy), Top.reason))
    /\ UNCHANGED <<clickVars, pure, clock, steps>>

HandleNext ==
    \/ HandleEvidenceSaved
    \/ HandleEvidenceRaised
    \/ HandleRaise

SpecHandle == HandleInit /\ [][HandleNext]_vars

HandleEntry == frames # <<>> /\ Entry.fn = "handle_step_failure"

MaxAccounts == 3        \* enabled accounts range over 1..MaxAccounts

JsonInt(n) == [type |-> "int", v |-> n]
JsonNull == [type |-> "null", v |-> 0]
\* the float n + 0.5 (n >= 0), which int() truncates to n
JsonFloat(n) == [type |-> "float", v |-> n]
\* the text of the decimal numeral n
JsonNumeral(n) == [type |-> "numeral", v |-> n]
JsonText == [type |-> "text", v |-> 0]
JsonList == [type |-> "list", v |-> 0]
JsonInfinity == [type |-> "infinity", v |-> 0]
JsonNaN == [type |-> "nan", v |-> 0]

\* int(value): the integer, or the exception it raises
int_of(value) ==
    CASE value.type \in {"int", "float", "numeral"} -> [error |-> "none", v |-> value.v]
      [] value.type \in {"null", "list"} -> [error |-> "TypeError", v |-> 0]
      [] value.type \in {"text", "nan"} -> [error |-> "ValueError", v |-> 0]
      [] value.type = "infinity" -> [error |-> "OverflowError", v |-> 0]

RECURSIVE join(_)
\* "|".join(names)
join(names) ==
    IF names = <<>> THEN <<>>
    ELSE IF Len(names) = 1 THEN names[1]
    ELSE names[1] \o <<"|">> \o join(Tail(names))

\* _hash_accounts
hash_accounts(accounts) == join(accounts)

NoState == [present |-> FALSE]

\* a variant that writes "completed" with the index it was given
save_state_completed_as_given(accounts, next_index, status) ==
    [present |-> TRUE,
     accounts_hash |-> hash_accounts(accounts),
     total |-> Len(accounts),
     next_index |-> JsonInt(IF next_index < 1 THEN 1 ELSE next_index),
     status |-> status]

\* the file _save_state writes
save_state(accounts, next_index, status) ==
    LET total == Len(accounts)
        completed_index == IF status = "completed" THEN total + 1 ELSE next_index
    IN [present |-> TRUE,
        accounts_hash |-> hash_accounts(accounts),
        total |-> total,
        next_index |-> JsonInt(IF completed_index < 1 THEN 1 ELSE completed_index),
        status |-> status]

\* _resolve_start_index: the index to start from, or the exception that
\* int() raises and the routine does not catch
resolve_start_index(state, accounts) ==
    IF ~state.present
    THEN [error |-> "none", v |-> 0]
    ELSE IF state.accounts_hash # hash_accounts(accounts)
    THEN [error |-> "none", v |-> 0]
    ELSE LET total == Len(accounts)
             converted == int_of(state.next_index)
             next_index == IF converted.error \in {"TypeError", "ValueError"}
                           THEN 1 ELSE converted.v
         IN IF converted.error = "OverflowError" THEN converted
            ELSE IF state.status = "completed" \/ next_index > total
            THEN [error |-> "none", v |-> 0]
            ELSE IF next_index <= 1 THEN [error |-> "none", v |-> 0]
            ELSE [error |-> "none", v |-> next_index - 1]

(***************************************************************************)
(* Specification of one call of _resolve_start_index on what _load_state   *)
(* may hand it: nothing (no file, a file that is not JSON, JSON that is    *)
(* not an object), or an object with any values.                           *)
(***************************************************************************)
UserNames == << <<"a">>, <<"b">>, <<"c">>, <<"d">> >>
AccountLists == {SubSeq(UserNames, 1, n) : n \in 1..MaxAccounts}
OtherAccounts == << <<"z">> >>
StateStatuses == {"running", "stopped", "manual", "completed"}
NextIndexValues ==
    {JsonInt(n) : n \in -1..(MaxAccounts + 1)}
        \cup {JsonFloat(n) : n \in 1..MaxAccounts}
        \cup {JsonNumeral(2), JsonNull, JsonText, JsonList, JsonInfinity, JsonNaN}

ResolveInit ==
    /\ ClickIdle
    /\ CallIdle
    /\ \E accounts \in AccountLists :
        \E state \in {NoState} \cup
                     {[present |-> TRUE, accounts_hash |-> hash_accounts(written_for),
                       total |-> Len(written_for), next_index |-> next_index,
                       status |-> status] :
                          written_for \in {accounts, OtherAccounts},
                          next_index \in NextIndexValues,
                          status \in StateStatuses} :
            pure = [fn |-> "resolve_start_index", state |-> state,
                    accounts |-> accounts, done |-> FALSE,
                    ret |-> [error |-> "none", v |-> 0]]

CallResolveStartIndex ==
    /\ pure.fn = "resolve_start_index"
    /\ ~pure.done
    /\ pure' = [pure EXCEPT !.done = TRUE,
                            !.ret = resolve_start_index(pure.state, pure.accounts)]
    /\ UNCHANGED <<clickVars, callVars>>

SpecResolve == ResolveInit /\ [][CallResolveStartIndex]_vars

(***************************************************************************)
(* Vocabulary of the checkpoint properties.                                *)
(***************************************************************************)
Resolved == pure.fn = "resolve_start_index" /\ pure.done

\* the checkpoint holds an integer next_index
IntegerNextIndex == pure.state.next_index.type = "int"

\* the cases in which the run is to start from the first account
StartsOver ==
    \/ ~pure.state.present
    \/ pure.state.accounts_hash # join(pure.accounts)
    \/ pure.state.status = "completed"
    \/ ~IntegerNextIndex
    \/ pure.state.next_index.v > Len(pure.accounts)
    \/ pure.state.next_index.v <= 1

(***************************************************************************)
(* C26.  _resolve_start_index returns 0 (start from the first account)     *)
(* whenever the checkpoint is absent, empty or unreadable, its             *)
(* accounts_hash differs from the hash of the current enabled-account      *)
(* list, its status is "completed", or its next_index is greater than      *)
(* total, not greater than 1, or not an integer; in every other case it    *)
(* returns next_index - 1, which is a valid index in 1..total-1.           *)
(*                                                                         *)
(* The code converts next_index with int() and catches TypeError and       *)
(* ValueError only: an infinite number in the file makes the routine raise *)
(* OverflowError, and a float or a numeral is used as the integer int()    *)
(* makes of it.  C26_ResolveStartIndexOnIntegers is the claim for          *)
(* checkpoints in which next_index is an integer or has no int() value.    *)
(***************************************************************************)
C26_ResolveStartIndex ==
    Resolved =>
        /\ pure.ret.error = "none"
        /\ IF StartsOver
           THEN pure.ret.v = 0
           ELSE /\ pure.ret.v = pure.state.next_index.v - 1
                /\ pure.ret.v \in 1..(Len(pure.accounts) - 1)

C26_ResolveStartIndexOnIntegers ==
    (/\ Resolved
     /\ pure.state.present =>
            pure.state.next_index.type \notin {"float", "numeral", "infinity"}) =>
        /\ pure.ret.error = "none"
        /\ IF StartsOver
           THEN pure.ret.v = 0
           ELSE /\ pure.ret.v = pure.state.next_index.v - 1
                /\ pure.ret.v \in 1..(Len(pure.accounts) - 1)

\* a checkpoint of the current list whose next_index is Infinity
C26_InfinityRaises ==
    /\ Resolved
    /\ pure.state.present
    /\ pure.state.accounts_hash = join(pure.accounts)
    /\ pure.state.next_index = JsonInfinity
    /\ pure.ret.error = "OverflowError"

(***************************************************************************)
(* run_all_accounts_once (src/src/runner.py): the enabled accounts are run *)
(* in order from the index the checkpoint gives, each up to                *)
(* account_max_retry times; the checkpoint is saved at every transition;   *)
(* the stop flag is polled before each account, before the wait between    *)
(* two accounts and after the loop.                                        *)
(*                                                                         *)
(* The frame of the run also holds what lives outside the process: `disk', *)
(* the checkpoint file, and `flag', whether stop.flag exists, which the    *)
(* operator may create and delete at any moment (the stop button writes    *)
(* it, the start and run-once buttons of src/src/ui.py delete it);         *)
(* `since' is the number of steps the run had made when the flag was last  *)
(* created.  A write of the checkpoint that fails is modelled where the    *)
(* routine catches it; the other writes are taken to succeed.              *)
(* `run' counts the runs made on the same disk; `steps' holds the steps of *)
(* the current run and `prev' what the run before it left.                 *)
(***************************************************************************)
MaxRuns == 2              \* runs made one after the other on the same disk
MaxRunAccounts == 2       \* a run has 1..MaxRunAccounts enabled accounts
account_max_retry == 2    \* FlowConfig.account_max_retry
WaitSeconds == {0, 10}    \* FlowConfig.wait_next_account_seconds

RunAccountLists == {SubSeq(UserNames, 1, n) : n \in 1..MaxRunAccounts}

\* no run was made before
NoRun == [run |-> 0, accounts |-> <<>>, disk |-> NoState, halted |-> FALSE, first_open |-> 0]

RunFrame(accounts, max_retry, error_policy, wait_seconds) ==
    [fn |-> "run_all_accounts_once", pc |-> "start", ret |-> None,
     accounts |-> accounts, max_retry |-> max_retry,
     error_policy |-> error_policy, wait_seconds |-> wait_seconds,
     disk |-> NoState, flag |-> FALSE, since |-> 0, run |-> 1,
     prev |-> NoRun, index |-> 0, attempt |-> 0, success |-> FALSE]

RunInit ==
    /\ ClickIdle
    /\ pure = IdlePure
    /\ \E accounts \in RunAccountLists, max_retry \in {1, account_max_retry},
          error_policy \in ErrorPolicies, wait_seconds \in WaitSeconds :
        frames = <<RunFrame(accounts, max_retry, error_policy, wait_seconds)>>
    /\ steps = <<>>
    /\ clock = 0
    /\ outcome = NoOutcome

\* _save_state(state_path, accounts, next_index, status)
Saved(frame, next_index, status) ==
    [frame EXCEPT !.disk = save_state(frame.accounts, next_index, status)]

\* one write of the checkpoint: the arguments of _save_state and the
\* next_index it wrote
SaveStep(frame, next_index, status) ==
    Step("save_state",
         [next_index |-> next_index, status |-> status,
          written |-> save_state(frame.accounts, next_index, status).next_index.v],
         "ok", frame.run)

\* the run returns
RunReturn(frame) ==
    /\ frames' = <<[frame EXCEPT !.pc = "done"]>>
    /\ outcome' = [kind |-> "returned", value |-> None]

\* _load_state and _resolve_start_index
RunStart ==
    /\ Running("run_all_accounts_once", "start")
    /\ LET start_index == resolve_start_index(Top.disk, Top.accounts)
       IN IF start_index.error = "none"
          THEN /\ Goto([Top EXCEPT !.pc = "loop", !.index = start_index.v + 1])
               /\ UNCHANGED outcome
          ELSE Raise(Exception(start_index.error, Err))
    /\ UNCHANGED <<clickVars, pure, clock, steps>>

\* stop.flag exists before an account is started
RunStopBeforeAccount ==
    /\ Running("run_all_accounts_once", "loop")
    /\ Top.index <= Len(Top.accounts)
    /\ Top.flag
    /\ steps' = Append(steps, SaveStep(Top, Top.index, "stopped"))
    /\ Goto([Saved(Top, Top.index, "stopped") EXCEPT !.pc = "after_loop"])
    /\ UNCHANGED <<clickVars, pure, clock, outcome>>

RunAccountBegin ==
    /\ Running("run_all_accounts_once", "loop")
    /\ Top.index <= Len(Top.accounts)
    /\ ~Top.flag
    /\ steps' = Append(steps, SaveStep(Top, Top.index, "running"))
    /\ Goto([Saved(Top, Top.index, "running") EXCEPT
                !.pc = "attempt", !.attempt = 1, !.success = FALSE])
    /\ UNCHANGED <<clickVars, pure, clock, outcome>>

\* the accounts are exhausted
RunLoopEnd ==
    /\ Running("run_all_accounts_once", "loop")
    /\ Top.index > Len(Top.accounts)
    /\ Goto([Top EXCEPT !.pc = "after_loop"])
    /\ UNCHANGED <<clickVars, pure, clock, steps, outcome>>

AttemptStep(frame, res) ==
    Step("attempt", [index |-> frame.index, attempt |-> frame.attempt], res, frame.run)

\* run_launcher_web_login_flow completes
RunAttemptOk ==
    /\ Running("run_all_accounts_once", "attempt")
    /\ Top.attempt <= Top.max_retry
    /\ steps' = Append(steps, AttemptStep(Top, "ok"))
    /\ Goto([Top EXCEPT !.pc = "account_end", !.success = TRUE])
    /\ UNCHANGED <<clickVars, pure, clock, outcome>>

\* the attempt raises ManualInterventionRequired, which only
\* _handle_step_failure does, under the manual policy
RunAttemptManual ==
    /\ Running("run_all_accounts_once", "attempt")
    /\ Top.attempt <= Top.max_retry
    /\ Top.error_policy = "manual"
    /\ steps' = steps \o <<AttemptStep(Top, "manual"),
                           SaveStep(Top, Top.index, "manual")>>
    /\ RunReturn(Saved(Top, Top.index, "manual"))
    /\ UNCHANGED <<clickVars, pure, clock>>

\* a variant that tries again without forcing the game to exit
RunAttemptErrorRestartNoCleanup ==
    /\ Running("run_all_accounts_once", "attempt")
    /\ Top.attempt <= Top.max_retry
    /\ Top.error_policy = "restart"
    /\ steps' = steps \o <<AttemptStep(Top, "error"),
                           Step("save_ui_evidence", Top.index, "done", Top.run)>>
    /\ Goto([Top EXCEPT !.attempt = @ + 1])
    /\ UNCHANGED <<clickVars, pure, clock, outcome>>

\* the attempt raises another exception under the restart policy: the
\* game is forced to exit (a failure of which is logged) and the account
\* is tried again
RunAttemptErrorRestart ==
    /\ Running("run_all_accounts_once", "attempt")
    /\ Top.attempt <= Top.max_retry
    /\ Top.error_policy = "restart"
    /\ \E cleanup \in {"done", "raise"} :
        steps' = steps \o <<AttemptStep(Top, "error"),
                            Step("save_ui_evidence", Top.index, "done", Top.run),
                            Step("force_exit_game", Top.index, cleanup, Top.run)>>
    /\ Goto([Top EXCEPT !.attempt = @ + 1])
    /\ UNCHANGED <<clickVars, pure, clock, outcome>>

\* the attempt raises another exception under the manual policy
RunAttemptErrorManual ==
    /\ Running("run_all_accounts_once", "attempt")
    /\ Top.attempt <= Top.max_retry
    /\ Top.error_policy # "restart"
    /\ steps' = steps \o <<AttemptStep(Top, "error"),
                           Step("save_ui_evidence", Top.index, "done", Top.run),
                           SaveStep(Top, Top.index, "manual")>>
    /\ RunReturn(Saved(Top, Top.index, "manual"))
    /\ UNCHANGED <<clickVars, pure, clock>>

\* the same, but writing the checkpoint raises: the exception is caught
\* by the handler around the cleanup and logged, and the loop goes on
RunAttemptErrorManualSaveFailed ==
    /\ Running("run_all_accounts_once", "attempt")
    /\ Top.attempt <= Top.max_retry
    /\ Top.error_policy # "restart"
    /\ steps' = steps \o
           <<AttemptStep(Top, "error"),
             Step("save_ui_evidence", Top.index, "done", Top.run),
             Step("save_state", [next_index |-> Top.index, status |-> "manual"],
                  "OSError", Top.run)>>
    /\ Goto([Top EXCEPT !.attempt = @ + 1])
    /\ UNCHANGED <<clickVars, pure, clock, outcome>>

\* every attempt failed: the account is skipped
RunAttemptsExhausted ==
    /\ Running("run_all_accounts_once", "attempt")
    /\ Top.attempt > Top.max_retry
    /\ Goto([Top EXCEPT !.pc = "account_end"])
    /\ UNCHANGED <<clickVars, pure, clock, steps, outcome>>

\* the account is over: the checkpoint moves on to the next one
RunAccountEnd ==
    /\ Running("run_all_accounts_once", "account_end")
    /\ steps' = steps \o
           <<Step("account", Top.index, IF Top.success THEN "done" ELSE "failed",
                  Top.run),
             SaveStep(Top, Top.index + 1, "running")>>
    /\ Goto([Saved(Top, Top.index + 1, "running") EXCEPT
                !.pc = IF Top.index < Len(Top.accounts) /\ Top.wait_seconds > 0
                       THEN "between" ELSE "loop",
                !.index = IF Top.index < Len(Top.accounts) /\ Top.wait_seconds > 0
                          THEN @ ELSE @ + 1])
    /\ UNCHANGED <<clickVars, pure, clock, outcome>>

\* stop.flag exists before the wait for the next account
RunStopBetweenAccounts ==
    /\ Running("run_all_accounts_once", "between")
    /\ Top.flag
    /\ steps' = Append(steps, SaveStep(Top, Top.index + 1, "stopped"))
    /\ Goto([Saved(Top, Top.index + 1, "stopped") EXCEPT !.pc = "after_loop"])
    /\ UNCHANGED <<clickVars, pure, clock, outcome>>

\* time.sleep(wait_seconds)
RunWaitNextAccount ==
    /\ Running("run_all_accounts_once", "between")
    /\ ~Top.flag
    /\ Goto([Top EXCEPT !.pc = "loop", !.index = @ + 1])
    /\ UNCHANGED <<clickVars, pure, clock, steps, outcome>>

\* after the loop, without stop.flag: the checkpoint is completed
RunCompleted ==
    /\ Running("run_all_accounts_once", "after_loop")
    /\ ~Top.flag
    /\ steps' = Append(steps, SaveStep(Top, Len(Top.accounts), "completed"))
    /\ RunReturn(Saved(Top, Len(Top.accounts), "completed"))
    /\ UNCHANGED <<clickVars, pure, clock>>

\* after the loop, with stop.flag: the checkpoint is left as it is
RunLeftAsIs ==
    /\ Running("run_all_accounts_once", "after_loop")
    /\ Top.flag
    /\ RunReturn(Top)
    /\ UNCHANGED <<clickVars, pure, clock, steps>>

\* the operator creates stop.flag while the run is going on
StopFlagCreated ==
    /\ frames # <<>>
    /\ Top.fn = "run_all_accounts_once"
    /\ Top.pc \notin {"done", "raised"}
    /\ ~Top.flag
    /\ Goto([Top EXCEPT !.flag = TRUE, !.since = Len(steps)])
    /\ UNCHANGED <<clickVars, pure, clock, steps, outcome>>

\* the operator deletes stop.flag while the run is going on
StopFlagDeleted ==
    /\ frames # <<>>
    /\ Top.fn = "run_all_accounts_once"
    /\ Top.pc \notin {"done", "raised"}
    /\ Top.flag
    /\ Goto([Top EXCEPT !.flag = FALSE, !.since = 0])
    /\ UNCHANGED <<clickVars, pure, clock, steps, outcome>>

\* the account list the operator may have edited between two runs
edited(accounts) ==
    {accounts} \cup (IF Len(accounts) > 1
                     THEN {SubSeq(accounts, 1, Len(accounts) - 1)} ELSE {})

\* the accounts a run finished, and the first account it left open
Finished == {steps[i].arg : i \in {j \in StepIdx : steps[j].op = "account"}}
Saves == {i \in StepIdx : steps[i].op = "save_state" /\ steps[i].res = "ok"}
Halts == {i \in Saves : steps[i].arg.status \in {"stopped", "manual"}}
FirstHandled == steps[CHOOSE i \in Saves : \A j \in Saves : i <= j].arg.next_index
FirstOpen ==
    IF Finished = {} THEN FirstHandled
    ELSE (CHOOSE k \in Finished : \A h \in Finished : h <= k) + 1

\* what a run that returned leaves to the next one
left_behind(frame) ==
    [run |-> frame.run, accounts |-> frame.accounts, disk |-> frame.disk,
     halted |-> Halts # {}, first_open |-> IF Saves = {} THEN 0 ELSE FirstOpen]

\* the next run on the same disk; in between the operator may have created
\* or deleted stop.flag and edited the account list
RunAgain ==
    /\ frames # <<>>
    /\ Top.fn = "run_all_accounts_once"
    /\ Top.pc = "done"
    /\ Top.run < MaxRuns
    /\ \E accounts \in edited(Top.accounts), flag \in BOOLEAN :
        frames' = <<[Top EXCEPT !.pc = "start", !.run = @ + 1,
                                !.flag = flag, !.since = 0,
                                !.accounts = accounts, !.prev = left_behind(Top),
                                !.index = 0, !.attempt = 0, !.success = FALSE]>>
    /\ steps' = <<>>
    /\ outcome' = NoOutcome
    /\ UNCHANGED <<clickVars, pure, clock>>

RunNext ==
    \/ RunStart
    \/ RunStopBeforeAccount
    \/ RunAccountBegin
    \/ RunLoopEnd
    \/ RunAttemptOk
    \/ RunAttemptManual
    \/ RunAttemptErrorRestart
    \/ RunAttemptErrorManual
    \/ RunAttemptErrorManualSaveFailed
    \/ RunAttemptsExhausted
    \/ RunAccountEnd
    \/ RunStopBetweenAccounts
    \/ RunWaitNextAccount
    \/ RunCompleted
    \/ RunLeftAsIs
    \/ StopFlagCreated
    \/ StopFlagDeleted
    \/ RunAgain

SpecRun == RunInit /\ [][RunNext]_vars

(***************************************************************************)
(* What the steps of a run tell.                                           *)
(***************************************************************************)
Attempts == {i \in StepIdx : steps[i].op = "attempt"}
Attempted == {steps[i].arg.index : i \in Attempts}

\* the checkpoint writes that start an account
Begins ==
    {i \in Saves : /\ steps[i].arg.status = "running"
                   /\ (i = 1 \/ steps[i - 1].op # "account")}

\* the attempts that call for a halt: ManualInterventionRequired, or any
\* other exception when error_policy is not "restart"
CallsForHalt(i) ==
    /\ steps[i].op = "attempt"
    /\ \/ steps[i].res = "manual"
       \/ steps[i].res = "error" /\ Entry.error_policy # "restart"

\* the accounts from i on were attempted in order, none before i and none
\* in between left out
ProcessedInOrderFrom(i) ==
    /\ \A k \in Attempts : steps[k].arg.index >= i
    /\ \A k \in Attempts, h \in Attempts :
          k < h => steps[k].arg.index <= steps[h].arg.index
    /\ \A n \in i..Len(Entry.accounts) :
          (\E m \in Attempted : m > n) => n \in Attempted

(***************************************************************************)
(* C25: a run interrupted by stop.flag or by a manual halt when account i  *)
(* is the first one not completed leaves a checkpoint with next_index = i, *)
(* and the next run on the same account list processes i, i+1, ..., total  *)
(* in order, none of 1..i-1 again and none of i..total left out.           *)
(***************************************************************************)
C25_ResumesAtFirstOpenAccount ==
    /\ (Entry.pc = "done" /\ Halts # {})
          => Entry.disk.next_index = JsonInt(FirstOpen)
    /\ (Entry.prev.halted /\ Entry.prev.accounts = Entry.accounts)
          => /\ ProcessedInOrderFrom(Entry.prev.first_open)
             /\ (Entry.pc = "done" /\ Halts = {})
                   => Attempted = Entry.prev.first_open..Len(Entry.accounts)

(***************************************************************************)
(* C27: an attempt that calls for a halt is followed at once by the        *)
(* checkpoint "manual" with the index of its account and by the return of  *)
(* the run: no further attempt, no further account, no forced exit of the  *)
(* game, no later checkpoint "running" or "completed" in the same run.     *)
(***************************************************************************)
C27_ManualHaltEndsTheRun ==
    \A i \in StepIdx :
        CallsForHalt(i)
            => /\ Len(steps) \in {i + 1, i + 2}
               /\ \A k \in (i + 1)..(Len(steps) - 1) :
                     steps[k].op = "save_ui_evidence"
               /\ LastStep = SaveStep(Entry, steps[i].arg.index, "manual")
               /\ Entry.disk = save_state(Entry.accounts, steps[i].arg.index, "manual")
               /\ Entry.pc = "done"

(***************************************************************************)
(* C28: when stop.flag has been there from some step of the run until the  *)
(* run returned, every account begun was carried to its end, no account    *)
(* was begun after that step, no checkpoint "completed" was written after  *)
(* it, and the checkpoint left is "stopped" with the index of the first    *)
(* account not processed.                                                  *)
(***************************************************************************)
C28_StopFlagStopsAfterCurrentAccount ==
    (Entry.pc = "done" /\ Entry.flag)
        => /\ \A i \in Begins :
                 \/ steps[i].arg.next_index \in Finished
                 \/ \E h \in Attempts : h > i /\ CallsForHalt(h)
           /\ \A i \in Begins : i <= Entry.since
           /\ \A i \in Saves :
                 i > Entry.since => steps[i].arg.status # "completed"
           /\ Entry.disk.present
           /\ Entry.disk.status = "stopped"
           /\ Entry.disk.next_index = JsonInt(FirstOpen)

(***************************************************************************)
(* run_scheduler.job_runner and FileLock (src/src/scheduler.py): the       *)
(* triggers of the scheduler, each a call of job_runner in a thread of one *)
(* of the scheduler processes started on the same base directory.          *)
(*                                                                         *)
(* frames[1] holds what the triggers share: `job_lock', for each process   *)
(* whether its threading.Lock _job_lock is held, and `run_lock', the       *)
(* trigger whose open handle holds the lock on logs/run.lock (0 for none). *)
(* Every other frame is one call of job_runner: its process, its position, *)
(* how often it has entered run_all_accounts_once and whether it found a   *)
(* lock taken.                                                             *)
(***************************************************************************)
MaxTriggers == 3          \* calls of job_runner
Procs == {1, 2}           \* scheduler processes
Unlocked == 0             \* nobody holds logs/run.lock

SchedulerFrame == [fn |-> "run_scheduler", pc |-> "serving", ret |-> None, job_lock |-> [p \in Procs |-> FALSE], run_lock |-> Unlocked]

JobFrame(proc) == [fn |-> "job_runner", pc |-> "start", ret |-> None, proc |-> proc, runs |-> 0, busy |-> FALSE]

SchedulerInit ==
    /\ ClickIdle
    /\ pure = IdlePure
    /\ \E n \in 1..MaxTriggers : \E procs \in [1..n -> Procs] :
        frames = <<SchedulerFrame>> \o [i \in 1..n |-> JobFrame(procs[i])]
    /\ steps = <<>>
    /\ clock = 0
    /\ outcome = NoOutcome

Jobs == 2..Len(frames)
Shared == frames[1]
JobAt(i, at) == frames[1].fn = "run_scheduler" /\ i \in Jobs /\ frames[i].pc = at

\* the locks and the job after a step of job i
JobStep(i, shared, job) ==
    /\ frames' = [frames EXCEPT ![1] = shared, ![i] = job]
    /\ UNCHANGED <<clickVars, pure, clock, steps, outcome>>

\* threading.Lock.acquire(blocking=False): the lock is taken unless held
try_acquire(held) == ~held

\* flock(LOCK_EX | LOCK_NB) and msvcrt.locking(LK_NBLCK) on a handle of
\* its own: the lock is taken unless another handle holds it
try_lock_broken(run_lock) == TRUE
try_lock(run_lock) == run_lock = Unlocked

\* _job_lock.acquire(blocking=False) succeeds
JobLockAcquired(i) ==
    /\ JobAt(i, "start")
    /\ try_acquire(Shared.job_lock[frames[i].proc])
    /\ JobStep(i, [Shared EXCEPT !.job_lock[frames[i].proc] = TRUE],
               [frames[i] EXCEPT !.pc = "stop_flag"])

\* _job_lock is held by a job of the same process: the trigger is skipped
JobLockBusy(i) ==
    /\ JobAt(i, "start")
    /\ ~try_acquire(Shared.job_lock[frames[i].proc])
    /\ JobStep(i, Shared, [frames[i] EXCEPT !.pc = "done", !.busy = TRUE])

\* stop.flag exists: _job_lock is released and the job is not started
JobStopFlagSeen(i) ==
    /\ JobAt(i, "stop_flag")
    /\ JobStep(i, [Shared EXCEPT !.job_lock[frames[i].proc] = FALSE],
               [frames[i] EXCEPT !.pc = "done"])

\* stop.flag does not exist
JobNoStopFlag(i) ==
    /\ JobAt(i, "stop_flag")
    /\ JobStep(i, Shared, [frames[i] EXCEPT !.pc = "file_lock"])

\* FileLock.acquire returns True
JobFileLockAcquired(i) ==
    /\ JobAt(i, "file_lock")
    /\ try_lock(Shared.run_lock)
    /\ JobStep(i, [Shared EXCEPT !.run_lock = i], [frames[i] EXCEPT !.pc = "run"])

\* FileLock.acquire returns False: _job_lock is released, the trigger is
\* skipped
JobFileLockBusy(i) ==
    /\ JobAt(i, "file_lock")
    /\ ~try_lock(Shared.run_lock)
    /\ JobStep(i, [Shared EXCEPT !.job_lock[frames[i].proc] = FALSE],
               [frames[i] EXCEPT !.pc = "done", !.busy = TRUE])

\* FileLock.acquire raises (the lock file cannot be created or opened):
\* the exception leaves job_runner, _job_lock stays held
JobFileLockRaised(i) ==
    /\ JobAt(i, "file_lock")
    /\ JobStep(i, Shared, [frames[i] EXCEPT !.pc = "raised"])

\* load_config raises: the exception is logged
JobLoadConfigRaised(i) ==
    /\ JobAt(i, "run")
    /\ JobStep(i, Shared, [frames[i] EXCEPT !.pc = "release_file"])

\* run_all_accounts_once is entered
JobRunStarted(i) ==
    /\ JobAt(i, "run")
    /\ JobStep(i, Shared, [frames[i] EXCEPT !.pc = "running", !.runs = @ + 1])

\* run_all_accounts_once returns or raises (the exception is logged)
JobRunEnded(i) ==
    /\ JobAt(i, "running")
    /\ JobStep(i, Shared, [frames[i] EXCEPT !.pc = "release_file"])

\* finally: lock.release()
JobFileLockReleased(i) ==
    /\ JobAt(i, "release_file")
    /\ JobStep(i, [Shared EXCEPT !.run_lock = IF @ = i THEN Unlocked ELSE @],
               [frames[i] EXCEPT !.pc = "release_job"])

\* finally: _job_lock.release()
JobLockReleased(i) ==
    /\ JobAt(i, "release_job")
    /\ JobStep(i, [Shared EXCEPT !.job_lock[frames[i].proc] = FALSE],
               [frames[i] EXCEPT !.pc = "done"])

SchedulerNext ==
    \E i \in 2..(MaxTriggers + 1) :
        \/ JobLockAcquired(i)
        \/ JobLockBusy(i)
        \/ JobStopFlagSeen(i)
        \/ JobNoStopFlag(i)
        \/ JobFileLockAcquired(i)
        \/ JobFileLockBusy(i)
        \/ JobFileLockRaised(i)
        \/ JobLoadConfigRaised(i)
        \/ JobRunStarted(i)
        \/ JobRunEnded(i)
        \/ JobFileLockReleased(i)
        \/ JobLockReleased(i)

SpecScheduler == SchedulerInit /\ [][SchedulerNext]_vars

\* the jobs inside run_all_accounts_once
Active == {i \in Jobs : frames[i].pc = "running"}

(***************************************************************************)
(* C29: whatever the interleaving of the triggers, in one process or in    *)
(* several sharing the lock file, at most one call of                      *)
(* run_all_accounts_once is active; a trigger that finds a lock taken      *)
(* returns without having run the flow and stays returned.                 *)
(***************************************************************************)
C29_AtMostOneRun ==
    /\ Cardinality(Active) <= 1
    /\ \A i \in Jobs :
          /\ frames[i].runs <= 1
          /\ frames[i].busy => frames[i].pc = "done" /\ frames[i].runs = 0
          /\ frames[i].pc = "running" => Shared.run_lock = i /\ Shared.job_lock[frames[i].proc]

\* a job of one process is running the flow, a trigger of the same process
\* and a trigger of the other process have been skipped
C29_Witness ==
    /\ Len(frames) = 4
    /\ \E i \in Jobs : \E j \in Jobs : \E k \in Jobs :
          /\ frames[i].pc = "running"
          /\ frames[j].busy /\ frames[j].proc = frames[i].proc
          /\ frames[k].busy /\ frames[k].proc # frames[i].proc

(***************************************************************************)
(* C30: with click_strategy_enabled false, a call of                       *)
(* click_point_with_strategy asks the point provider exactly once, injects *)
(* at most one click, at the point the provider gave, calls verify at most *)
(* once and only after a click that did not raise, does nothing else (no   *)
(* activation, recovery, candidate offset, backoff sleep or fallback), and *)
(* succeeds exactly when the click was injected without raising and        *)
(* verify, when supplied, returned true.                                   *)
(***************************************************************************)
PointsAsked == {i \in Idx : trace[i].op = "point_provider"}
ClicksInjected == {i \in Idx : trace[i].op = "click"}
VerifiesMade == {i \in Idx : trace[i].op = "verify"}

C30_NoStrategyPath ==
    (Done /\ ~flow.click_strategy_enabled)
        => /\ PointsAsked = {1}
           /\ ClicksInjected \subseteq {2}
           /\ \A i \in ClicksInjected :
                 /\ trace[1].res = "ok"
                 /\ trace[i].point = trace[1].point
                 /\ trace[i].offset = 0
           /\ VerifiesMade \subseteq {3}
           /\ \A i \in VerifiesMade :
                 /\ call.verify_action # "none"
                 /\ ClicksInjected = {2}
                 /\ trace[2].res = "ok"
           /\ Idx = PointsAsked \cup ClicksInjected \cup VerifiesMade
           /\ result.success
                 <=> /\ \E i \in ClicksInjected : trace[i].res = "ok"
                     /\ \/ call.verify_action = "none"
                        \/ \E i \in VerifiesMade : trace[i].res = "true"
           /\ result.success => result.success_point = trace[1].point

\* a call without strategy that resolved, clicked, verified and succeeded
C30_Witness ==
    /\ Done
    /\ ~flow.click_strategy_enabled
    /\ call.verify_action # "none"
    /\ call.fallback_action # "none"
    /\ Len(trace) = 3
    /\ result.success

(***************************************************************************)
(* The reasons of the click-failure taxonomy, the success reasons, and the *)
(* two further reasons click_point_with_strategy records.  A reason that   *)
(* the code writes as `name:<detail>' is the pair of its name and detail.  *)
(***************************************************************************)
ClickFailureTaxonomy ==
    {"activate_or_foreground_check_failed", "base_point_outside_work_rect",
     "candidate_outside_work_rect", "click_failed",
     "foreground_lost_after_click", "verify_failed", "verify_error"}
SuccessReasons == {"ok_verified", "ok_without_verify", "ocr_fallback_success"}
FurtherReasons == {"resolve_base_point_failed", "ocr_fallback_error"}

ResultAttIdx == 1..Len(result.attempts)
Succeeded == {k \in ResultAttIdx : result.attempts[k].success}

\* the result agrees with its attempts
ResultWellFormed ==
    /\ result.success \in BOOLEAN
    /\ ~result.success
          => /\ Succeeded = {}
             /\ result.attempts # <<>>
                   => result.final_reason
                          = result.attempts[Len(result.attempts)].reason
    /\ result.success
          => /\ Succeeded = {Len(result.attempts)}
             /\ result.final_reason
                    = result.attempts[Len(result.attempts)].reason

MaxVisibilityAttempts == 2    \* window_auto_recover_max_attempts ranges over 0..MaxVisibilityAttempts
LauncherTitle == "launcher window"
BrowserTitle == "browser window"
OtherTitle == "other window"
VisibilityTitles == {None, "", GameTitle, LauncherTitle, BrowserTitle, OtherTitle}
VisibilityChecks == {"absent", "off", "on"}
Ratios == {0, 8, 9, 10}
MinRatios == {0, 9}
RecoverTargets == {<<>>, <<"game">>, <<" Game ">>, <<"launcher", "">>, <<"browser", "game">>}

\* str(item).strip().lower()
normalized(item) == IF item = " Game " THEN "game" ELSE item

\* _resolve_window_kind
resolve_window_kind(window_title) ==
    IF window_title = GameTitle THEN "game"
    ELSE IF window_title = LauncherTitle THEN "launcher"
    ELSE IF window_title = BrowserTitle THEN "browser"
    ELSE "unknown"

\* a variant that lets every known window be recovered
should_auto_recover_window_any_kind(enabled, raw_targets, window_title) ==
    enabled /\ resolve_window_kind(window_title) # "unknown"

\* _should_auto_recover_window
should_auto_recover_window(enabled, raw_targets, window_title) ==
    LET window_kind == resolve_window_kind(window_title)
        targets == {normalized(raw_targets[i]) : i \in 1..Len(raw_targets)} \ {""}
    IN /\ enabled
       /\ window_kind # "unknown"
       /\ window_kind \in targets

\* max(1, int(window_auto_recover_max_attempts))
recover_attempts_allowed(configured) == IF configured < 1 THEN 1 ELSE configured

EnsureFrame(check, window_title, min_ratio, enabled, raw_targets, configured, error_policy) ==
    [fn |-> "ensure_window_visibility", pc |-> "start", ret |-> None,
     check |-> check, window_title |-> window_title, min_ratio |-> min_ratio,
     enabled |-> enabled, raw_targets |-> raw_targets, configured |-> configured,
     error_policy |-> error_policy, attempt |-> 0]

EnsureInit ==
    /\ ClickIdle
    /\ pure = IdlePure
    /\ \E check \in VisibilityChecks, window_title \in VisibilityTitles,
          min_ratio \in MinRatios, enabled \in BOOLEAN,
          raw_targets \in RecoverTargets,
          configured \in 0..MaxVisibilityAttempts,
          error_policy \in ErrorPolicies :
        frames = <<EnsureFrame(check, window_title, min_ratio, enabled,
                               raw_targets, configured, error_policy)>>
    /\ steps = <<>>
    /\ clock = 0
    /\ outcome = NoOutcome

\* target_title = window_title or config.launcher.game_window_title_keyword
EnsureTitle == target_title(Top.window_title)

\* get_window_rect, _get_window_visible_rect, compute_visible_ratio
Measured(ratio) == Step("measure", [title |-> EnsureTitle, ratio |-> ratio], "ok", Top.attempt)
MeasureFailed == Step("measure", [title |-> EnsureTitle, ratio |-> 0], "raise", Top.attempt)
FailureStep(cause) == Step("handle_step_failure", EnsureTitle, cause, Top.attempt)

\* _handle_step_failure(...): it raises, or its evidence write does
StepFailure(cause, before) ==
    /\ steps' = steps \o before \o <<FailureStep(cause)>>
    /\ \E type \in {failure_signal(Top.error_policy), "OSError"} :
          Raise(Exception(type, cause))

\* the check is switched off or the flow has no such switch
EnsureSkipped ==
    /\ Running("ensure_window_visibility", "start")
    /\ Top.check # "on"
    /\ ReturnValue(None)
    /\ UNCHANGED <<clickVars, pure, clock, steps>>

\* reading the rectangles or computing the ratio raises
EnsureMeasureRaised ==
    /\ Running("ensure_window_visibility", "start")
    /\ Top.check = "on"
    /\ StepFailure("measure_raised", <<MeasureFailed>>)
    /\ UNCHANGED <<clickVars, pure, clock>>

\* visible_ratio >= min_ratio
EnsureVisible ==
    /\ Running("ensure_window_visibility", "start")
    /\ Top.check = "on"
    /\ \E ratio \in Ratios :
        /\ ratio >= Top.min_ratio
        /\ steps' = Append(steps, Measured(ratio))
    /\ ReturnValue(None)
    /\ UNCHANGED <<clickVars, pure, clock>>

\* the ratio is too low and the window may be recovered
EnsureLowRecoverable ==
    /\ Running("ensure_window_visibility", "start")
    /\ Top.check = "on"
    /\ should_auto_recover_window(Top.enabled, Top.raw_targets, EnsureTitle)
    /\ \E ratio \in Ratios :
        /\ ratio < Top.min_ratio
        /\ steps' = Append(steps, Measured(ratio))
    /\ Goto([Top EXCEPT !.pc = "recover", !.attempt = 1])
    /\ UNCHANGED <<clickVars, pure, clock, outcome>>

\* the ratio is too low and the window may not be recovered
EnsureLowNotRecoverable ==
    /\ Running("ensure_window_visibility", "start")
    /\ Top.check = "on"
    /\ ~should_auto_recover_window(Top.enabled, Top.raw_targets, EnsureTitle)
    /\ \E ratio \in Ratios :
        /\ ratio < Top.min_ratio
        /\ StepFailure("ratio_low", <<Measured(ratio)>>)
    /\ UNCHANGED <<clickVars, pure, clock>>

RecoverStep(res) == Step("recover_window_to_visible", EnsureTitle, res, Top.attempt)

\* recover_window_to_visible raises (it is not called inside a try)
EnsureRecoverCrashed ==
    /\ Running("ensure_window_visibility", "recover")
    /\ Top.attempt <= recover_attempts_allowed(Top.configured)
    /\ steps' = Append(steps, RecoverStep("raise"))
    /\ Raise(Exception("Exception", Err))
    /\ UNCHANGED <<clickVars, pure, clock>>

\* after the recovery the measurement raises
EnsureRemeasureRaised ==
    /\ Running("ensure_window_visibility", "recover")
    /\ Top.attempt <= recover_attempts_allowed(Top.configured)
    /\ StepFailure("remeasure_raised", <<RecoverStep("returned"), MeasureFailed>>)
    /\ UNCHANGED <<clickVars, pure, clock>>

\* after the recovery the ratio is high enough
EnsureRecovered ==
    /\ Running("ensure_window_visibility", "recover")
    /\ Top.attempt <= recover_attempts_allowed(Top.configured)
    /\ \E ratio \in Ratios :
        /\ ratio >= Top.min_ratio
        /\ steps' = steps \o <<RecoverStep("returned"), Measured(ratio)>>
    /\ ReturnValue(None)
    /\ UNCHANGED <<clickVars, pure, clock>>

\* after the recovery the ratio is still too low
EnsureStillLow ==
    /\ Running("ensure_window_visibility", "recover")
    /\ Top.attempt <= recover_attempts_allowed(Top.configured)
    /\ \E ratio \in Ratios :
        /\ ratio < Top.min_ratio
        /\ steps' = steps \o <<RecoverStep("returned"), Measured(ratio)>>
    /\ Goto([Top EXCEPT !.attempt = @ + 1])
    /\ UNCHANGED <<clickVars, pure, clock, outcome>>

\* the permitted recoveries are used up
EnsureExhausted ==
    /\ Running("ensure_window_visibility", "recover")
    /\ Top.attempt > recover_attempts_allowed(Top.configured)
    /\ StepFailure("ratio_low", <<>>)
    /\ UNCHANGED <<clickVars, pure, clock>>

EnsureNext ==
    \/ EnsureSkipped
    \/ EnsureMeasureRaised
    \/ EnsureVisible
    \/ EnsureLowRecoverable
    \/ EnsureLowNotRecoverable
    \/ EnsureRecoverCrashed
    \/ EnsureRemeasureRaised
    \/ EnsureRecovered
    \/ EnsureStillLow
    \/ EnsureExhausted

SpecEnsure == EnsureInit /\ [][EnsureNext]_vars

(***************************************************************************)
(* What the steps of a call of _ensure_window_visibility tell.             *)
(***************************************************************************)
EnsureEntry == frames # <<>> /\ Entry.fn = "ensure_window_visibility"
Measures == {i \in StepIdx : steps[i].op = "measure"}
Recoveries == {i \in StepIdx : steps[i].op = "recover_window_to_visible"}
Failures == {i \in StepIdx : steps[i].op = "handle_step_failure"}
IsLow(i) == steps[i].res = "ok" /\ steps[i].arg.ratio < Entry.min_ratio
IsHigh(i) == steps[i].res = "ok" /\ steps[i].arg.ratio >= Entry.min_ratio
LastMeasure == CHOOSE i \in Measures : \A j \in Measures : j <= i

\* auto-recover is enabled and the kind of the window is a configured target
RecoveryPermitted ==
    /\ Entry.enabled
    /\ \E i \in 1..Len(Entry.raw_targets) :
          /\ normalized(Entry.raw_targets[i]) # ""
          /\ normalized(Entry.raw_targets[i])
                 = resolve_window_kind(target_title(Entry.window_title))
          /\ normalized(Entry.raw_targets[i]) # "unknown"

RecoveriesPermitted ==
    IF RecoveryPermitted
    THEN (IF Entry.configured < 1 THEN 1 ELSE Entry.configured)
    ELSE 0

\* the parts of the statement that do not speak of the failure handler
EnsureVisibilityCourse ==
    /\ Entry.check # "on" => steps = <<>> /\ outcome.kind # "raised"
    /\ \A i \in Measures :
          IsHigh(i) => /\ i = Len(steps)
                       /\ outcome.kind = "returned"
                       /\ Failures = {}
    /\ Recoveries # {} => RecoveryPermitted /\ IsLow(1)
    /\ Cardinality(Recoveries) <= RecoveriesPermitted
    /\ \A i \in Recoveries :
          steps[i].res = "returned" => i + 1 \in Measures
    /\ \A i \in Measures : i = 1 \/ i - 1 \in Recoveries
    /\ Cardinality(Failures) <= 1

\* the ratio is still low after the last permitted recovery, or low at
\* once when no recovery is permitted
StillLowAtTheEnd ==
    /\ Measures # {}
    /\ IsLow(LastMeasure)
    /\ Cardinality(Measures) = RecoveriesPermitted + 1

MeasurementRaised == Measures # {} /\ steps[LastMeasure].res = "raise"

(***************************************************************************)
(* C32 as stated: nothing is queried when the check is off; a ratio at or  *)
(* above the minimum ends the call without recovery or failure; below it,  *)
(* recovery happens only when permitted, at most                           *)
(* window_auto_recover_max_attempts times, each followed by a new          *)
(* measurement, and stops at the first ratio at or above the minimum; the  *)
(* failure handler is invoked iff the ratio is still low after the last    *)
(* permitted recovery (at once when none is permitted).                    *)
(***************************************************************************)
C32_HandlerIffStillLow ==
    EnsureEntry =>
        /\ EnsureVisibilityCourse
        /\ (outcome.kind # "none" /\ Measures # {} /\ IsLow(1))
              => (Failures # {} <=> StillLowAtTheEnd)

(***************************************************************************)
(* C32 amended: the same, the failure handler being invoked iff the ratio  *)
(* is still low after the last permitted recovery (at once when none is    *)
(* permitted) or the measurement after a recovery raised.                  *)
(***************************************************************************)
C32_EnsureWindowVisibility ==
    EnsureEntry =>
        /\ EnsureVisibilityCourse
        /\ (outcome.kind # "none" /\ Measures # {} /\ IsLow(1))
              => (Failures # {} <=> (StillLowAtTheEnd \/ MeasurementRaised))

\* a launcher window, a configured target, is recovered twice and is still
\* too low: the handler is invoked
C32_Witness ==
    /\ EnsureEntry
    /\ Entry.window_title = LauncherTitle
    /\ Cardinality(Recoveries) = 2
    /\ Cardinality(Measures) = 3
    /\ Failures = {Len(steps)}
    /\ outcome.kind = "raised"

(***************************************************************************)
(* C33: under error_policy "restart" every account is attempted at most    *)
(* account_max_retry times and not again after a success; every failed     *)
(* attempt is followed by the saving of evidence and the forced exit of    *)
(* the game, before any further attempt; when the last permitted attempt   *)
(* failed the account is given up, the checkpoint becomes running with     *)
(* next_index = index + 1 and the run goes on with the accounts that       *)
(* remain; a forced exit that raises does not end the run.                 *)
(***************************************************************************)
AttemptsOf(n) == {i \in Attempts : steps[i].arg.index = n}
FailedAttempts == {i \in Attempts : steps[i].res = "error"}

C34_CheckpointWellFormed ==
    (Entry.fn = "run_all_accounts_once" /\ Saves # {})
        => /\ Entry.disk.present
           /\ Entry.disk.status \in StateStatuses
           /\ Entry.disk.total = Len(Entry.accounts)
           /\ Entry.disk.accounts_hash = hash_accounts(Entry.accounts)
           /\ Entry.disk.next_index.type = "int"
           /\ Entry.disk.next_index.v \in 1..(Len(Entry.accounts) + 1)
           /\ Entry.disk.status = "completed"
                 => Entry.disk.next_index.v = Len(Entry.accounts) + 1
           /\ Entry.disk.status = steps[CHOOSE i \in Saves : \A j \in Saves : j <= i].arg.status
           /\ \A i \in Saves, j \in Saves :
                 i <= j => steps[i].arg.written <= steps[j].arg.written

\* the second run was stopped after its first account: it wrote running
\* and stopped checkpoints, the last with next_index = 2
C34_Witness ==
    /\ Entry.fn = "run_all_accounts_once"
    /\ Entry.run = 2
    /\ Entry.pc = "done"
    /\ Cardinality(Saves) = 3
    /\ {steps[i].arg.status : i \in Saves} = {"running", "stopped"}
    /\ Entry.disk.status = "stopped"
    /\ Entry.disk.next_index.v = 2

(***************************************************************************)
(* C35: with the strategy enabled, every point at which a click is         *)
(* injected is the base point of its round moved by the candidate offset   *)
(* and passed _is_point_clickable against the visible rect obtained in     *)
(* that round with the configured guard padding; a candidate that is not   *)
(* clickable is recorded as failed with candidate_outside_work_rect and is *)
(* never clicked; the strategy rounds of one call inject at most           *)
(* max_attempts times the number of candidate offsets clicks.              *)
(***************************************************************************)
\* the point provider call that resolved the base point of round r
ResolvedAt(r) ==
    LET provs == ProviderCalls(r)
    IN IF provs = {} THEN 0 ELSE CHOOSE k \in provs : \A j \in provs : j <= k

ClicksAt(r, o) ==
    {k \in Clicks : trace[k].round = r /\ trace[k].offset = o}

CandidateAttempts == {a \in AttIdx : attempts[a].offset_index >= 0}

CandidateOf(r, o) ==
    <<trace[ResolvedAt(r)].point[1] + candidate_offsets[o + 1][1],
      trace[ResolvedAt(r)].point[2] + candidate_offsets[o + 1][2]>>

C35_ClicksOnlyClickableCandidates ==
    Strategy =>
        /\ \A k \in Clicks :
            LET r == trace[k].round
                o == trace[k].offset
            IN /\ r \in 1..N
               /\ o \in 0..(M - 1)
               /\ ResolvedAt(r) \in 1..(k - 1)
               /\ trace[k].point = CandidateOf(r, o)
               /\ is_point_clickable(trace[k].point, trace[ResolvedAt(r)].rect,
                                     Max(0, flow.click_point_guard_padding_px))
               /\ Cardinality(ClicksAt(r, o)) = 1
               /\ \E a \in CandidateAttempts :
                      /\ attempts[a].round_index = r
                      /\ attempts[a].offset_index = o
                      /\ attempts[a].reason # "candidate_outside_work_rect"
        /\ \A a \in CandidateAttempts :
            LET r == attempts[a].round_index
                o == attempts[a].offset_index
                clickable ==
                    is_point_clickable(CandidateOf(r, o), trace[ResolvedAt(r)].rect,
                                       Max(0, flow.click_point_guard_padding_px))
            IN /\ ResolvedAt(r) # 0
               /\ attempts[a].point = CandidateOf(r, o)
               /\ (attempts[a].reason = "candidate_outside_work_rect") <=> ~clickable
               /\ ~clickable =>
                      /\ ~attempts[a].success
                      /\ ClicksAt(r, o) = {}
                      /\ attempts[a].detail =
                             <<trace[ResolvedAt(r)].rect,
                               Max(0, flow.click_point_guard_padding_px)>>
        /\ Cardinality(Clicks) <= N * M

\* two rounds over two candidates: the first candidate is clicked in both
\* rounds, the second lies outside the visible rect and is recorded instead
C35_Witness ==
    /\ Strategy
    /\ Done
    /\ M = 2
    /\ Cardinality(Clicks) = 2
    /\ \E a, b \in CandidateAttempts :
        /\ attempts[a].round_index = 1
        /\ attempts[b].round_index = 2
        /\ attempts[a].reason = "candidate_outside_work_rect"
        /\ attempts[b].reason = "candidate_outside_work_rect"

(***************************************************************************)
(* A window recovered twice (src/src/process_ops.py 346-379): the rect     *)
(* returned by _compute_recovered_window_rect is given to it again with    *)
(* the same visible rect, padding and allow_resize.  The function accepts  *)
(* any integers, so the sides range over zero and negative values too; a   *)
(* negative padding is raised to 0 by the function itself.  Both axes run  *)
(* the same code: the horizontal one ranges wide, the vertical one over a  *)
(* few values.                                                             *)
(***************************************************************************)
AnySides == (-1)..MaxSide
FewSides == {0, 1, MaxSide}

RecoverAgainInit ==
    /\ ClickIdle
    /\ CallIdle
    /\ \E left \in Coords, top \in {-1, 2}, width \in AnySides,
          height \in FewSides, origin \in VisibleOrigins,
          visible_width \in AnySides, visible_height \in FewSides,
          padding \in (-1)..MaxGuard, allow_resize \in BOOLEAN :
        pure = [fn |-> "recover_again",
                window_rect |-> <<left, top, width, height>>,
                visible |-> <<origin[1], origin[2], visible_width, visible_height>>,
                padding_px |-> padding, allow_resize |-> allow_resize,
                calls |-> 0, ret |-> <<>>, again |-> <<>>]

RecoverFirst ==
    /\ pure.fn = "recover_again"
    /\ pure.calls = 0
    /\ pure' = [pure EXCEPT !.calls = 1,
                            !.ret = compute_recovered_window_rect(
                                        pure.window_rect, pure.visible,
                                        pure.padding_px, pure.allow_resize)]
    /\ UNCHANGED <<clickVars, callVars>>

RecoverSecond ==
    /\ pure.fn = "recover_again"
    /\ pure.calls = 1
    /\ pure' = [pure EXCEPT !.calls = 2,
                            !.again = compute_recovered_window_rect(
                                          pure.ret, pure.visible,
                                          pure.padding_px, pure.allow_resize)]
    /\ UNCHANGED <<clickVars, callVars>>

RecoverAgainNext == RecoverFirst \/ RecoverSecond

SpecRecoverAgain == RecoverAgainInit /\ [][RecoverAgainNext]_vars

(***************************************************************************)
(* C36: the recovery clamping is idempotent.  For every integer window     *)
(* rect and visible rect, every padding and either allow_resize,           *)
(* _compute_recovered_window_rect applied to its own output with the same  *)
(* visible rect, padding and allow_resize returns that output unchanged.   *)
(***************************************************************************)
C36_RecoveryIdempotent ==
    (pure.fn = "recover_again" /\ pure.calls = 2) => pure.again = pure.ret

\* a window wider than the padded area and off its far edge is shrunk and
\* moved by the first call, and left where it is by the second
C36_Witness ==
    /\ pure.fn = "recover_again"
    /\ pure.calls = 2
    /\ pure.allow_resize
    /\ pure.window_rect = <<3, 2, 4, 1>>
    /\ pure.visible = <<0, 0, 4, 1>>
    /\ pure.padding_px = 1
    /\ pure.ret = <<1, 0, 2, 1>>
    /\ pure.again = <<1, 0, 2, 1>>

(***************************************************************************)
(* C37: every call of job_runner that acquired _job_lock has released it,  *)
(* and has released the lock on logs/run.lock if it acquired it, by the    *)
(* time the call ends, whether it ends on stop.flag, on a lock file held   *)
(* elsewhere, on load_config or the run raising, or on FileLock.acquire    *)
(* itself raising; so once no call of a process is under way its _job_lock *)
(* is free and a later trigger is not skipped as still running.            *)
(*                                                                         *)
(* Violated: lock.acquire() (scheduler.py 92) is called before the try     *)
(* whose finally releases the locks, so when it raises the call ends with  *)
(* _job_lock held.                                                         *)
(***************************************************************************)
Ended(i) == frames[i].pc \in {"done", "raised"}

\* the calls of process p that are between acquiring and releasing
UnderWay(p) ==
    {i \in Jobs : frames[i].proc = p /\ frames[i].pc \notin {"start", "done", "raised"}}

C37_LocksReleasedAtEnd ==
    Shared.fn = "run_scheduler" =>
        /\ \A p \in Procs : UnderWay(p) = {} => ~Shared.job_lock[p]
        /\ \A i \in Jobs : Ended(i) => Shared.run_lock # i

(***************************************************************************)
(* _build_daily_times (src/src/scheduler.py 161-196) and the schedules     *)
(* ScheduleConfig accepts (src/src/config.py 97-129).                      *)
(*                                                                         *)
(* A time of day "HH:MM" is the pair <<hour, minute>>; a datetime of the   *)
(* day is the number of seconds since its midnight, so the last instant of *)
(* the day, time.max, is the last second.  The day itself only dates the   *)
(* results and seeds the random generator: a draw of rng.randint(-j, j) is *)
(* any value of that range.                                                *)
(***************************************************************************)
MaxJitter == 2                       \* jitter_minutes over 0..MaxJitter
attempts_per_day == 30               \* attempts = 30
SecondsPerMinute == 60
MinutesPerDay == 24 * 60
day_start == 0
day_end == MinutesPerDay * SecondsPerMinute - 1

ClockTimes == { <<0, 0>>, <<0, 1>>, <<12, 0>>, <<12, 1>>, <<23, 59>> }
MinGaps == {1, 2, 720}

\* _parse_time followed by _combine_date
combine_date(value) == (value[1] * 60 + value[2]) * SecondsPerMinute

Distance(a, b) == IF a >= b THEN a - b ELSE b - a

\* scheduler._minutes_gap: whole minutes between two datetimes
minutes_gap(a, b) == Distance(a, b) \div SecondsPerMinute

\* config._minutes_gap: minutes between two times of day, around the clock
config_minutes_gap(a, b) ==
    LET diff == Distance(a[1] * 60 + a[2], b[1] * 60 + b[2])
    IN Min(diff, MinutesPerDay - diff)

clamp_to_day(value) ==
    IF value < day_start THEN day_start
    ELSE IF value > day_end THEN day_end
    ELSE value

RandomWindow(center, jitter_minutes) ==
    [center |-> center, jitter_minutes |-> jitter_minutes]

\* ScheduleConfig._validate_schedule over two windows or two fixed times
schedule_accepted(schedule) ==
    /\ schedule.min_gap_minutes > 0
    /\ IF schedule.mode = "random_window"
       THEN /\ Len(schedule.random_windows) = 2
            /\ \A i \in 1..2 : schedule.random_windows[i].jitter_minutes >= 0
            /\ config_minutes_gap(schedule.random_windows[1].center,
                                  schedule.random_windows[2].center)
                   >= schedule.min_gap_minutes
       ELSE /\ Len(schedule.fixed_times) = 2
            /\ config_minutes_gap(schedule.fixed_times[1], schedule.fixed_times[2])
                   >= schedule.min_gap_minutes

Schedules ==
    { s \in [mode : {"random_window", "fixed_times"},
             min_gap_minutes : MinGaps,
             random_windows :
                 { <<RandomWindow(c[1], j[1]), RandomWindow(c[2], j[2])>> :
                       c \in ClockTimes \X ClockTimes,
                       j \in (0..MaxJitter) \X (0..MaxJitter) },
             fixed_times : ClockTimes \X ClockTimes] :
        /\ schedule_accepted(s)
        /\ s.mode = "random_window" => s.fixed_times = <<<<0, 0>>, <<12, 0>>>>
        /\ s.mode = "fixed_times" =>
               s.random_windows = <<RandomWindow(<<0, 0>>, 0),
                                    RandomWindow(<<12, 0>>, 0)>> }

sorted(times) == SortSeq(times, LAMBDA a, b : a < b)

\* one pass of the inner loop: a draw for each window
drawn(schedule, jitter) ==
    [i \in 1..2 |->
        clamp_to_day(combine_date(schedule.random_windows[i].center)
                     + jitter[i] * SecondsPerMinute)]

Draws(schedule) ==
    { jitter \in ((-MaxJitter - 1)..(MaxJitter + 1)) \X ((-MaxJitter - 1)..(MaxJitter + 1)) :
        \A i \in 1..2 :
            /\ jitter[i] >= -schedule.random_windows[i].jitter_minutes
            /\ jitter[i] <= schedule.random_windows[i].jitter_minutes }

DailyInit ==
    /\ ClickIdle
    /\ CallIdle
    /\ \E schedule \in Schedules :
        pure = [fn |-> "build_daily_times", schedule |-> schedule, tries |-> 0,
                run_times |-> <<>>, done |-> FALSE, ret |-> <<>>]

Building == pure.fn = "build_daily_times" /\ ~pure.done

DailyReturn(times) ==
    /\ pure' = [pure EXCEPT !.done = TRUE, !.ret = sorted(times)]
    /\ UNCHANGED <<clickVars, callVars>>

\* mode fixed_times: the two configured times, sorted
BuildFixedTimes ==
    /\ Building
    /\ pure.schedule.mode = "fixed_times"
    /\ DailyReturn([i \in 1..2 |-> combine_date(pure.schedule.fixed_times[i])])

\* a draw that keeps the gap is returned
BuildDrawAccepted ==
    /\ Building
    /\ pure.schedule.mode = "random_window"
    /\ pure.tries < attempts_per_day
    /\ \E jitter \in Draws(pure.schedule) :
        LET run_times == drawn(pure.schedule, jitter)
        IN /\ minutes_gap(run_times[1], run_times[2]) >= pure.schedule.min_gap_minutes
           /\ DailyReturn(run_times)

\* a draw that does not keep the gap: the next pass starts
BuildDrawRejected ==
    /\ Building
    /\ pure.schedule.mode = "random_window"
    /\ pure.tries < attempts_per_day
    /\ \E jitter \in Draws(pure.schedule) :
        LET run_times == drawn(pure.schedule, jitter)
        IN /\ ~(minutes_gap(run_times[1], run_times[2]) >= pure.schedule.min_gap_minutes)
           /\ pure' = [pure EXCEPT !.tries = @ + 1, !.run_times = run_times]
           /\ UNCHANGED <<clickVars, callVars>>

\* what the warning of line 191 announces: the centre times, and only they
centre_times_alone(schedule, run_times) ==
    [i \in 1..2 |-> combine_date(schedule.random_windows[i].center)]

\* after the loop: the centres are appended to run_times, which still holds
\* the last draw
centre_times(schedule, run_times) ==
    run_times \o [i \in 1..2 |-> combine_date(schedule.random_windows[i].center)]

\* no pass kept the gap
BuildCentres ==
    /\ Building
    /\ pure.schedule.mode = "random_window"
    /\ pure.tries = attempts_per_day
    /\ DailyReturn(centre_times(pure.schedule, pure.run_times))

DailyNext ==
    \/ BuildFixedTimes
    \/ BuildDrawAccepted
    \/ BuildDrawRejected
    \/ BuildCentres

SpecDaily == DailyInit /\ [][DailyNext]_vars

Built == pure.fn = "build_daily_times" /\ pure.done

\* the centre of window i as a datetime of the day
Centre(i) == combine_date(pure.schedule.random_windows[i].center)

\* time t lies within the jitter of window i of its centre, clamped to the day
WithinJitter(t, i) ==
    \E minutes \in (-pure.schedule.random_windows[i].jitter_minutes)..
                   pure.schedule.random_windows[i].jitter_minutes :
        t = clamp_to_day(Centre(i) + minutes * SecondsPerMinute)

(***************************************************************************)
(* C38: for every schedule ScheduleConfig accepts, _build_daily_times      *)
(* returns exactly two datetimes of the day in ascending order; in mode    *)
(* random_window each lies within jitter_minutes of the centre of its      *)
(* window (clamped to the day), and the two are at least min_gap_minutes   *)
(* apart or, when none of the passes kept the gap, are the two centres.    *)
(*                                                                         *)
(* Violated when none of the 30 passes keeps the gap: the centres are      *)
(* appended to the last draw and four datetimes are returned.              *)
(***************************************************************************)
C38_TwoTimesOfTheDay ==
    Built =>
        /\ Len(pure.ret) = 2
        /\ \A i \in 1..Len(pure.ret) :
              pure.ret[i] >= day_start /\ pure.ret[i] <= day_end
        /\ \A i \in 1..(Len(pure.ret) - 1) : pure.ret[i] <= pure.ret[i + 1]
        /\ pure.schedule.mode = "random_window" =>
              /\ \/ WithinJitter(pure.ret[1], 1) /\ WithinJitter(pure.ret[2], 2)
                 \/ WithinJitter(pure.ret[1], 2) /\ WithinJitter(pure.ret[2], 1)
              /\ \/ minutes_gap(pure.ret[1], pure.ret[2])
                        >= pure.schedule.min_gap_minutes
                 \/ /\ pure.tries = attempts_per_day
                    /\ pure.ret = sorted(<<Centre(1), Centre(2)>>)

(***************************************************************************)
(* _enter_channel_to_character_select and _enter_character_to_in_game      *)
(* (src/src/runner.py 1313-1469), with _select_channel_with_refresh        *)
(* (1808-1896) and _end_game_and_fail (2338-2356) in line.                 *)
(*                                                                         *)
(* The waits, the scene detection, the clicks and the force exit are taken *)
(* at their interface: each is a step with the result it returned.  A wait *)
(* or a button click that fails inside (_ensure_window_visibility,         *)
(* _click_roi_button) ends in _handle_step_failure, whose evidence is      *)
(* taken to be written.  `now' of a step is the attempt it was made in.    *)
(***************************************************************************)
MaxStartgameRetry == 2     \* channel_startgame_retry over 1..MaxStartgameRetry
MaxRefresh == 1            \* channel_refresh_max_retry over 1..MaxRefresh

ChannelSelect == "channel_select"
CharacterSelect == "character_select"
WaitScenes == {None, ChannelSelect, CharacterSelect, InGame}
PastChannel == {CharacterSelect, InGame}

EnterFrame(fn, startgame_retry, refresh_limit, error_policy) ==
    [fn |-> fn, pc |-> "attempt", ret |-> None,
     startgame_retry |-> startgame_retry, refresh_limit |-> refresh_limit,
     error_policy |-> error_policy, attempt |-> 1, refresh_attempt |-> 0,
     reason |-> ""]

EnterInit ==
    /\ ClickIdle
    /\ pure = IdlePure
    /\ \E fn \in {"enter_channel_to_character_select", "enter_character_to_in_game"},
          startgame_retry \in 1..MaxStartgameRetry,
          refresh_limit \in 1..MaxRefresh, error_policy \in ErrorPolicies :
        frames = <<EnterFrame(fn, startgame_retry, refresh_limit, error_policy)>>
    /\ steps = <<>>
    /\ clock = 0
    /\ outcome = NoOutcome

EnterStep(op, arg, res) == Step(op, arg, res, Top.attempt)

\* the steps are made and the function goes on at frame
EnterGoto(made, frame) ==
    /\ steps' = steps \o made
    /\ Goto(frame)
    /\ UNCHANGED <<clickVars, pure, clock, outcome>>

\* the steps are made and the function returns
EnterReturn(made) ==
    /\ steps' = steps \o made
    /\ ReturnValue(None)
    /\ UNCHANGED <<clickVars, pure, clock>>

\* the steps are made and _handle_step_failure raises
EnterStepFailure(made, reason) ==
    /\ steps' = steps \o made
                 \o <<EnterStep("handle_step_failure", reason,
                                failure_signal(Top.error_policy))>>
    /\ Raise(Exception(failure_signal(Top.error_policy), reason))
    /\ UNCHANGED <<clickVars, pure, clock>>

\* the loop over the attempts never ends by itself
next_attempt_unbounded(frame, reason) ==
    [frame EXCEPT !.pc = "attempt", !.attempt = @ + 1]

\* `continue' and the end of the body of the loop over the attempts: the
\* next attempt, or _end_game_and_fail after the last one
next_attempt(frame, reason) ==
    IF frame.attempt < frame.startgame_retry
    THEN [frame EXCEPT !.pc = "attempt", !.attempt = @ + 1]
    ELSE [frame EXCEPT !.pc = "end_game", !.reason = reason]

Channel(at) == Running("enter_channel_to_character_select", at)
Character(at) == Running("enter_character_to_in_game", at)

\* scene = _detect_scene(scene_checkers) at the start of an attempt
ChannelDetect ==
    /\ Channel("attempt")
    /\ \E scene \in WaitScenes :
        IF scene \in PastChannel
        THEN EnterReturn(<<EnterStep("detect_scene", "start", scene)>>)
        ELSE EnterGoto(<<EnterStep("detect_scene", "start", scene)>>,
                       [Top EXCEPT !.pc = "wait_channel"])

\* _wait_channel_select_ready times out and the scene is detected again
ChannelWaitTimedOut ==
    /\ Channel("wait_channel")
    /\ \E scene \in WaitScenes :
        LET made == <<EnterStep("wait_channel_select_ready", ChannelSelect,
                                scene_wait_result(None, ChannelSelect)),
                      EnterStep("detect_scene", "timeout", scene)>>
        IN IF scene \in PastChannel
           THEN EnterReturn(made)
           ELSE EnterGoto(made, next_attempt(Top, "character_select_not_reached"))

\* _wait_channel_select_ready reports another scene
ChannelWaitOtherScene ==
    /\ Channel("wait_channel")
    /\ \E scene \in WaitScenes \ {None} :
        LET wait_result == scene_wait_result(scene, ChannelSelect)
            made == <<EnterStep("wait_channel_select_ready", ChannelSelect,
                                wait_result)>>
        IN /\ ~wait_result.is_expected
           /\ IF wait_result.scene \in PastChannel
              THEN EnterReturn(made)
              ELSE EnterGoto(made, next_attempt(Top, "character_select_not_reached"))

\* _wait_channel_select_ready finds the channel list
ChannelWaitReady ==
    /\ Channel("wait_channel")
    /\ EnterGoto(<<EnterStep("wait_channel_select_ready", ChannelSelect,
                             scene_wait_result(ChannelSelect, ChannelSelect))>>,
                 [Top EXCEPT !.pc = "select_channel", !.refresh_attempt = 0])

\* the window visibility check inside a wait fails the step
EnterWaitFailed ==
    /\ frames # <<>>
    /\ Top.fn \in {"enter_channel_to_character_select", "enter_character_to_in_game"}
    /\ Top.pc \in {"wait_channel", "wait_character", "wait_in_game"}
    /\ EnterStepFailure(<<EnterStep(Top.pc, "ensure_window_visibility", None)>>,
                        "window_not_visible")

\* a channel is found and clicked, then the start button is clicked
SelectChannelStart ==
    /\ Channel("select_channel")
    /\ \E clicked \in BOOLEAN :
        LET made == <<EnterStep("find_channels", Top.refresh_attempt, "found"),
                      EnterStep("click_channel", Top.refresh_attempt, "ok"),
                      EnterStep("click_roi_button", "button_startgame",
                                IF clicked THEN "ok" ELSE "failed")>>
        IN IF clicked
           THEN EnterGoto(made, [Top EXCEPT !.pc = "wait_character"])
           ELSE EnterStepFailure(made, "click_failed")

\* no channel is found, or the click on it fails
ChannelMissed ==
    { <<EnterStep("find_channels", Top.refresh_attempt, "none")>>,
      <<EnterStep("find_channels", Top.refresh_attempt, "found"),
        EnterStep("click_channel", Top.refresh_attempt, "failed")>> }

\* no channel was selected and a refresh is left: the list is refreshed
SelectChannelRefresh ==
    /\ Channel("select_channel")
    /\ ~(Top.refresh_attempt >= Top.refresh_limit)
    /\ \E missed \in ChannelMissed, clicked \in BOOLEAN :
        LET made == missed
                    \o <<EnterStep("handle_channel_exception", Top.refresh_attempt, None),
                         EnterStep("click_roi_button", "button_refresh",
                                   IF clicked THEN "ok" ELSE "failed")>>
        IN IF clicked
           THEN EnterGoto(made, [Top EXCEPT !.refresh_attempt = @ + 1])
           ELSE EnterStepFailure(made, "click_failed")

\* no channel was selected and no refresh is left
SelectChannelGivenUp ==
    /\ Channel("select_channel")
    /\ Top.refresh_attempt >= Top.refresh_limit
    /\ \E missed \in ChannelMissed :
        EnterGoto(missed, [Top EXCEPT !.pc = "end_game", !.reason = "no_channel"])

\* _wait_character_select_ready after the start button
ChannelWaitCharacter ==
    /\ Channel("wait_character")
    /\ \E scene \in WaitScenes :
        LET character_result == scene_wait_result(scene, CharacterSelect)
            waited == <<EnterStep("wait_character_select_ready", CharacterSelect,
                                  character_result)>>
            matched(in_game) == <<EnterStep("match_in_game_once", "after_wait", in_game)>>
        IN IF character_result.scene \in PastChannel
           THEN EnterReturn(waited)
           ELSE IF character_result.scene = None
           THEN \E in_game \in BOOLEAN :
                   IF in_game
                   THEN EnterReturn(waited \o matched(in_game))
                   ELSE EnterGoto(waited \o matched(in_game),
                                  next_attempt(Top, "character_select_not_reached"))
           ELSE EnterGoto(waited, next_attempt(Top, "character_select_not_reached"))

\* the policy under which _end_game_and_fail ends the game, whatever it is
ends_game_always(error_policy) == TRUE

\* config.flow.error_policy == "restart"
ends_game(error_policy) == error_policy = "restart"

\* _end_game_and_fail under the restart policy: the end-game button, the
\* force exit, the step failure
EndGameRestart ==
    /\ frames # <<>>
    /\ Top.pc = "end_game"
    /\ ends_game(Top.error_policy)
    /\ \E clicked \in BOOLEAN :
        IF clicked
        THEN EnterStepFailure(<<EnterStep("click_roi_button", "button_endgame", "ok"),
                                EnterStep("force_exit_game", Top.reason, None)>>,
                              Top.reason)
        ELSE EnterStepFailure(<<EnterStep("click_roi_button", "button_endgame",
                                          "failed")>>,
                              "click_failed")

\* _end_game_and_fail under the manual policy: the step failure alone
EndGameManual ==
    /\ frames # <<>>
    /\ Top.pc = "end_game"
    /\ ~ends_game(Top.error_policy)
    /\ EnterStepFailure(<<>>, Top.reason)

\* _wait_in_game_and_exit: the dwell, then _force_exit_game
wait_in_game_and_exit == <<EnterStep("wait_in_game_and_exit", "sleep", None),
                           EnterStep("force_exit_game", "dwell_over", None)>>

\* the scene after which the character flow dwells and returns, wrongly
\* taken to include the character list
reached_in_game_or_character(scene) == scene \in {InGame, CharacterSelect}

\* in_game_result.scene == "进入游戏界面"
reached_in_game(scene) == scene = InGame

\* _match_in_game_once at the start of an attempt
CharacterMatchInGame ==
    /\ Character("attempt")
    /\ \E in_game \in BOOLEAN :
        LET matched == <<EnterStep("match_in_game_once", "start", in_game)>>
        IN IF in_game
           THEN EnterReturn(matched \o wait_in_game_and_exit)
           ELSE EnterGoto(matched, [Top EXCEPT !.pc = "wait_character"])

\* _wait_character_select_ready in the character flow
CharacterWait ==
    /\ Character("wait_character")
    /\ \E scene \in WaitScenes :
        LET character_result == scene_wait_result(scene, CharacterSelect)
            waited == <<EnterStep("wait_character_select_ready", CharacterSelect,
                                  character_result)>>
            matched(in_game) == <<EnterStep("match_in_game_once", "timeout", in_game)>>
        IN IF character_result.scene = None
           THEN \E in_game \in BOOLEAN :
                   IF in_game
                   THEN EnterReturn(waited \o matched(in_game) \o wait_in_game_and_exit)
                   ELSE EnterGoto(waited \o matched(in_game),
                                  next_attempt(Top, "in_game_not_reached"))
           ELSE IF character_result.scene = InGame
           THEN EnterReturn(waited \o wait_in_game_and_exit)
           ELSE EnterGoto(waited, [Top EXCEPT !.pc = "select_character"])

\* _select_character_and_start: True, False, or the start button fails the
\* step
CharacterSelectAndStart ==
    /\ Character("select_character")
    /\ \E started \in {"true", "false", "failed"} :
        LET selected == <<EnterStep("select_character_and_start", "character_1",
                                    started)>>
            matched(in_game) ==
                <<EnterStep("match_in_game_once", "not_selected", in_game)>>
        IN IF started = "failed"
           THEN EnterStepFailure(selected, "click_failed")
           ELSE IF started = "true"
           THEN EnterGoto(selected, [Top EXCEPT !.pc = "wait_in_game"])
           ELSE \E in_game \in BOOLEAN :
                   IF in_game
                   THEN EnterReturn(selected \o matched(in_game)
                                    \o wait_in_game_and_exit)
                   ELSE EnterGoto(selected \o matched(in_game),
                                  next_attempt(Top, "in_game_not_reached"))

\* _wait_in_game_ready
CharacterWaitInGame ==
    /\ Character("wait_in_game")
    /\ \E scene \in WaitScenes :
        LET in_game_result == scene_wait_result(scene, InGame)
            waited == <<EnterStep("wait_in_game_ready", InGame, in_game_result)>>
        IN IF reached_in_game(in_game_result.scene)
           THEN EnterReturn(waited \o wait_in_game_and_exit)
           ELSE EnterGoto(waited, next_attempt(Top, "in_game_not_reached"))

EnterNext ==
    \/ ChannelDetect
    \/ ChannelWaitTimedOut
    \/ ChannelWaitOtherScene
    \/ ChannelWaitReady
    \/ EnterWaitFailed
    \/ SelectChannelStart
    \/ SelectChannelRefresh
    \/ SelectChannelGivenUp
    \/ ChannelWaitCharacter
    \/ EndGameRestart
    \/ EndGameManual
    \/ CharacterMatchInGame
    \/ CharacterWait
    \/ CharacterSelectAndStart
    \/ CharacterWaitInGame

SpecEnter == EnterInit /\ [][EnterNext]_vars

ChannelEntry == frames # <<>> /\ Entry.fn = "enter_channel_to_character_select"

\* step i detected the character list or the game
SeenPastChannel(i) ==
    \/ steps[i].op = "detect_scene" /\ steps[i].res \in PastChannel
    \/ /\ steps[i].op \in {"wait_channel_select_ready", "wait_character_select_ready"}
       /\ steps[i].res.scene \in PastChannel
    \/ steps[i].op = "match_in_game_once" /\ steps[i].res = TRUE

EndGameClicks ==
    {i \in StepIdx : steps[i].op = "click_roi_button" /\ steps[i].arg = "button_endgame"}

ForcedExits == {i \in StepIdx : steps[i].op = "force_exit_game"}

CharacterEntry == frames # <<>> /\ Entry.fn = "enter_character_to_in_game"

\* step i detected the game
SeenInGame(i) ==
    \/ steps[i].op = "match_in_game_once" /\ steps[i].res = TRUE
    \/ /\ steps[i].op \in {"wait_character_select_ready", "wait_in_game_ready"}
       /\ steps[i].res.scene = InGame

\* the calls of _wait_in_game_and_exit: its dwell
Dwells == {i \in StepIdx : steps[i].op = "wait_in_game_and_exit"}

====
